---- MODULE Spec2Model ----
(***************************************************************************)
(* Model of the object-diff utility (src/unnamed/part_000).                *)
(*                                                                         *)
(* JavaScript values are records tagged by the field t:                    *)
(*   undefined, null, boolean (b), number (n), NaN, string (s),            *)
(*   array (a: sequence of values),                                        *)
(*   object (o: sequence of [k, v] properties in key insertion order).     *)
(* The result of diff is itself a JavaScript value: null, or an object     *)
(* literal built exactly as the source builds it.                          *)
(***************************************************************************)
EXTENDS Integers, Sequences, FiniteSets, TLC

VARIABLES oldValue, newValue, name, result, pc

diffVars == <<oldValue, newValue, name, result, pc>>

\* DocumentValidator (src/unnamed/part_003): the argument of a validator,
\* the validator called, and how the call ended
VARIABLES input, validator, verdict

validatorVars == <<input, validator, verdict>>

\* the arguments of one call of UtilsHelper.mask, EnvironmentGuard.canActivate,
\* GlobalExceptionFilter.catch or GetPagination, and how the call ended
VARIABLES call, outcome

\* defer / deferWithTimeout (src/unnamed/part_003): the closure variables
\* isSettled, isResolved and isRejected, the state of the promise, the timer of
\* deferWithTimeout, and the own data properties of the returned object
VARIABLES isSettled, isResolved, isRejected, promise, timeoutId, deferred

deferredVars == <<isSettled, isResolved, isRejected, promise, timeoutId, deferred>>

\* EntityBuilder (src/src/helpers/jwt.helper.ts): the objects allocated so
\* far, the reference this.data and the reference build() returned last
VARIABLES heap, data, built

\* the calls made so far on a deferred or on a builder, oldest first
VARIABLES calls

vars ==
  <<oldValue, newValue, name, result, pc, input, validator, verdict,
    call, outcome, isSettled, isResolved, isRejected, promise, timeoutId,
    deferred, heap, data, built, calls>>

\* the variables of every part of the program but one are at rest
IdleExcept(parts) ==
  /\ "diff" \in parts \/
       (oldValue = [t |-> "undefined"] /\ newValue = [t |-> "undefined"]
        /\ name = "none" /\ result = [t |-> "null"])
  /\ "validators" \in parts \/
       (input = [t |-> "undefined"] /\ validator = "none"
        /\ verdict = [kind |-> "none"])
  /\ "call" \in parts \/ (call = [op |-> "none"] /\ outcome = [kind |-> "none"])
  /\ "deferred" \in parts \/
       (/\ isSettled = FALSE /\ isResolved = FALSE /\ isRejected = FALSE
        /\ promise = [state |-> "none"] /\ timeoutId = "none"
        /\ deferred = [kind |-> "none"])
  /\ "calls" \in parts \/ calls = <<>>
  /\ "builder" \in parts \/ (heap = <<>> /\ data = 0 /\ built = 0)

---------------------------------------------------------------------------
(* JavaScript values *)

Undef == [t |-> "undefined"]
Null == [t |-> "null"]
NaN == [t |-> "NaN"]
Bool(b) == [t |-> "boolean", b |-> b]
Num(n) == [t |-> "number", n |-> n]
Str(s) == [t |-> "string", s |-> s]
Arr(a) == [t |-> "array", a |-> a]
Obj(o) == [t |-> "object", o |-> o]
Prop(k, v) == [k |-> k, v |-> v]

Range(s) == {s[i] : i \in 1..Len(s)}

\* typeof: null, arrays and objects are all 'object'; NaN is a number
TypeOf(v) ==
  CASE v.t = "undefined" -> "undefined"
    [] v.t = "boolean" -> "boolean"
    [] v.t \in {"number", "NaN"} -> "number"
    [] v.t = "string" -> "string"
    [] OTHER -> "object"

\* value == null
IsNullish(v) == v.t \in {"undefined", "null"}

IsArray(v) == v.t = "array"

isPrimitive(v) == v.t = "null" \/ TypeOf(v) # "object"

\* a !== b on primitives: NaN is not identical to anything, itself included
StrictNotEqual(a, b) == a.t = "NaN" \/ b.t = "NaN" \/ a # b

\* Object.keys: the indices of an array, the keys of an object in order
Keys(v) ==
  IF v.t = "array" THEN [i \in 1..Len(v.a) |-> ToString(i - 1)]
  ELSE [i \in 1..Len(v.o) |-> v.o[i].k]

\* obj[k] for a key of Object.keys(obj)
Get(v, k) ==
  IF v.t = "array" THEN v.a[CHOOSE i \in 1..Len(v.a) : ToString(i - 1) = k]
  ELSE v.o[CHOOSE i \in 1..Len(v.o) : v.o[i].k = k].v

---------------------------------------------------------------------------
(* JSON.stringify *)

Quote(s) == "\"" \o s \o "\""

RECURSIVE JsonText(_)
RECURSIVE JoinElements(_)
RECURSIVE JoinProperties(_)

\* the elements of an array, comma separated
JoinElements(a) ==
  IF a = <<>> THEN ""
  ELSE IF Len(a) = 1 THEN JsonText(a[1])
  ELSE JsonText(a[1]) \o "," \o JoinElements(Tail(a))

\* the properties of an object, comma separated
JoinProperties(o) ==
  IF o = <<>> THEN ""
  ELSE IF Len(o) = 1 THEN Quote(o[1].k) \o ":" \o JsonText(o[1].v)
  ELSE Quote(o[1].k) \o ":" \o JsonText(o[1].v) \o "," \o JoinProperties(Tail(o))

\* The text of a value in a nested position. undefined and NaN become null
\* inside an array; a property whose value is undefined is left out.
JsonText(v) ==
  CASE v.t \in {"null", "undefined", "NaN"} -> "null"
    [] v.t = "boolean" -> IF v.b THEN "true" ELSE "false"
    [] v.t = "number" -> ToString(v.n)
    [] v.t = "string" -> Quote(v.s)
    [] v.t = "array" -> "[" \o JoinElements(v.a) \o "]"
    [] v.t = "object" ->
         "{" \o JoinProperties(SelectSeq(v.o, LAMBDA p : p.v.t # "undefined")) \o "}"

\* JSON.stringify(value): undefined for undefined, a string otherwise
serializeValue(value) ==
  IF value.t = "undefined" THEN Undef ELSE Str(JsonText(value))

---------------------------------------------------------------------------
(* diff *)

\* { [name]: value }
Entry(key, value) == Obj(<<Prop(key, value)>>)

\* Type changed
TypeChanged(old, new, key) ==
  Entry(key, Obj(<<
    Prop("description",
         Str("Type changed from " \o TypeOf(old) \o " to " \o TypeOf(new))),
    Prop("oldValue", serializeValue(old)),
    Prop("newValue", serializeValue(new))>>))

\* a variant that stores the raw new value instead of its serialization
PropertyAddedRaw(new, key) ==
  Entry(key, Obj(<<
    Prop("description", Str("Property added")),
    Prop("newValue", new)>>))

\* Property added
PropertyAdded(new, key) ==
  Entry(key, Obj(<<
    Prop("description", Str("Property added")),
    Prop("newValue", serializeValue(new))>>))

\* Property removed
PropertyRemoved(old, key) ==
  Entry(key, Obj(<<
    Prop("description", Str("Property removed")),
    Prop("oldValue", serializeValue(old))>>))

\* new Set(array.map(serializeValue))
SerializedSet(v) == {serializeValue(v.a[i]) : i \in 1..Len(v.a)}

\* a variant that looks the raw elements up instead of their serializations
arrayAddedByValue(old, new) ==
  SelectSeq(new.a, LAMBDA x : x \notin Range(old.a))

\* newValue.filter(x => !oldSerialized.has(serializeValue(x)))
arrayAdded(old, new) ==
  SelectSeq(new.a, LAMBDA x : serializeValue(x) \notin SerializedSet(old))

\* a variant that never reports a removal
arrayRemovedNone(old, new) == <<>>

\* a variant that matches element objects whatever their key order
KeyOrderBlindEqual(x, y) ==
  IF x.t = "object" /\ y.t = "object"
  THEN /\ Range(Keys(x)) = Range(Keys(y))
       /\ \A k \in Range(Keys(x)) : Get(x, k) = Get(y, k)
  ELSE serializeValue(x) = serializeValue(y)

arrayRemovedKeyOrderBlind(old, new) ==
  SelectSeq(old.a, LAMBDA x : \A j \in 1..Len(new.a) : ~KeyOrderBlindEqual(x, new.a[j]))

\* oldValue.filter(x => !newSerialized.has(serializeValue(x)))
arrayRemoved(old, new) ==
  SelectSeq(old.a, LAMBDA x : serializeValue(x) \notin SerializedSet(new))

\* a variant that always emits both fields, empty lists included
ArrayModifiedBothFields(removed, added) ==
  Obj(<<Prop("description", Str("Array modified")),
        Prop("removed", serializeValue(Arr(removed))),
        Prop("added", serializeValue(Arr(added)))>>)

\* the 'Array modified' record: removed and added are spread in only when
\* their list is not empty
ArrayModified(removed, added) ==
  Obj(<<Prop("description", Str("Array modified"))>>
      \o (IF Len(removed) # 0
          THEN <<Prop("removed", serializeValue(Arr(removed)))>> ELSE <<>>)
      \o (IF Len(added) # 0
          THEN <<Prop("added", serializeValue(Arr(added)))>> ELSE <<>>))

\* Array comparison (deep using serialization)
ArrayComparison(old, new, key) ==
  IF Len(arrayAdded(old, new)) = 0 /\ Len(arrayRemoved(old, new)) = 0
  THEN Null
  ELSE Entry(key, ArrayModified(arrayRemoved(old, new), arrayAdded(old, new)))

\* a variant that compares the key lists position by position
keysAddedByPosition(old, new) ==
  SelectSeq(Keys(new),
            LAMBDA k : \/ k \notin Range(Keys(old))
                       \/ \E i \in 1..Len(Keys(new)) :
                            /\ Keys(new)[i] = k
                            /\ i <= Len(Keys(old))
                            /\ Keys(old)[i] # k)

\* [...newKeys].filter(k => !oldKeys.has(k))
keysAdded(old, new) ==
  SelectSeq(Keys(new), LAMBDA k : k \notin Range(Keys(old)))

\* [...oldKeys].filter(k => !newKeys.has(k))
keysRemoved(old, new) ==
  SelectSeq(Keys(old), LAMBDA k : k \notin Range(Keys(new)))

\* [...oldKeys].filter(k => newKeys.has(k))
common(old, new) ==
  SelectSeq(Keys(old), LAMBDA k : k \in Range(Keys(new)))

\* the 'Properties added' record: Object.fromEntries of the raw new values
PropertiesAdded(new, added) ==
  Obj(<<
    Prop("description", Str("Properties added")),
    Prop("properties",
         Obj([i \in 1..Len(added) |-> Prop(added[i], Get(new, added[i]))]))>>)

\* the 'Properties removed' record: the list of removed key names
PropertiesRemoved(removed) ==
  Obj(<<
    Prop("description", Str("Properties removed")),
    Prop("properties", Arr([i \in 1..Len(removed) |-> Str(removed[i])]))>>)

\* a variant that lists the removed keys before the added ones
differencesRemovedFirst(old, new, perKey) ==
  (IF Len(keysRemoved(old, new)) # 0
   THEN <<PropertiesRemoved(keysRemoved(old, new))>> ELSE <<>>)
  \o (IF Len(keysAdded(old, new)) # 0
      THEN <<PropertiesAdded(new, keysAdded(old, new))>> ELSE <<>>)
  \o perKey

\* the differences list: added, then removed, then the per-key changes
differences(old, new, perKey) ==
  (IF Len(keysAdded(old, new)) # 0
   THEN <<PropertiesAdded(new, keysAdded(old, new))>> ELSE <<>>)
  \o (IF Len(keysRemoved(old, new)) # 0
      THEN <<PropertiesRemoved(keysRemoved(old, new))>> ELSE <<>>)
  \o perKey

\* a variant that returns the list even when it is empty
ObjectResultAlways(diffs, key) == Entry(key, Arr(diffs))

\* differences.length ? { [name]: differences } : null
ObjectResult(diffs, key) ==
  IF Len(diffs) # 0 THEN Entry(key, Arr(diffs)) ELSE Null

\* a variant that stores the serializations instead of the raw values
PrimitiveComparisonSerialized(old, new, key) ==
  IF StrictNotEqual(old, new)
  THEN Entry(key, Obj(<<
         Prop("description", Str("Value changed")),
         Prop("oldValue", serializeValue(old)),
         Prop("newValue", serializeValue(new))>>))
  ELSE Null

\* Primitive comparison
PrimitiveComparison(old, new, key) ==
  IF StrictNotEqual(old, new)
  THEN Entry(key, Obj(<<
         Prop("description", Str("Value changed")),
         Prop("oldValue", old),
         Prop("newValue", new)>>))
  ELSE Null

RECURSIVE diff(_, _, _)

\* common.map(k => diff(oldObj[k], newObj[k], k)).filter(c => c !== null)
changes(old, new) ==
  SelectSeq([i \in 1..Len(common(old, new)) |->
               diff(Get(old, common(old, new)[i]),
                    Get(new, common(old, new)[i]),
                    common(old, new)[i])],
            LAMBDA c : c # Null)

\* Object comparison (recursive)
ObjectComparison(old, new, key) ==
  ObjectResult(differences(old, new, changes(old, new)), key)

\* a variant that tests for a nullish side before it compares the types
diffNullishFirst(old, new, key) ==
  IF IsNullish(old) /\ IsNullish(new) THEN Null
  ELSE IF IsNullish(old) /\ ~IsNullish(new) THEN PropertyAdded(new, key)
  ELSE IF ~IsNullish(old) /\ IsNullish(new) THEN PropertyRemoved(old, key)
  ELSE IF TypeOf(old) # TypeOf(new) THEN TypeChanged(old, new, key)
  ELSE IF IsArray(old) /\ IsArray(new) THEN ArrayComparison(old, new, key)
  ELSE IF TypeOf(old) = "object" /\ TypeOf(new) = "object"
       THEN ObjectComparison(old, new, key)
  ELSE PrimitiveComparison(old, new, key)

diff(old, new, key) ==
  IF IsNullish(old) /\ IsNullish(new) THEN Null
  ELSE IF TypeOf(old) # TypeOf(new) THEN TypeChanged(old, new, key)
  ELSE IF IsNullish(old) /\ ~IsNullish(new) THEN PropertyAdded(new, key)
  ELSE IF ~IsNullish(old) /\ IsNullish(new) THEN PropertyRemoved(old, key)
  ELSE IF IsArray(old) /\ IsArray(new) THEN ArrayComparison(old, new, key)
  ELSE IF TypeOf(old) = "object" /\ TypeOf(new) = "object"
       THEN ObjectComparison(old, new, key)
  ELSE PrimitiveComparison(old, new, key)

\* the call reaches the object branch and calls diff again: both values
\* pass typeof === 'object', neither is null, they are not both arrays, and
\* they have a key in common
Recurses(old, new) ==
  /\ ~IsNullish(old) /\ ~IsNullish(new)
  /\ TypeOf(old) = "object" /\ TypeOf(new) = "object"
  /\ ~(IsArray(old) /\ IsArray(new))
  /\ common(old, new) # <<>>

---------------------------------------------------------------------------
(* The inputs: every pair of values of a bounded universe, and the calls    *)
(* shown in the documentation.                                               *)

\* longest array, and most properties of an object, in the universe
MaxLen == 2

SeqsUpTo(S, n) == UNION {[1..m -> S] : m \in 0..n}

\* property lists over the keys K with values in S: distinct keys, any order
PropLists(K, S, n) ==
  {o \in SeqsUpTo({Prop(k, v) : k \in K, v \in S}, n) :
     \A i, j \in 1..Len(o) : i # j => o[i].k # o[j].k}

Primitives ==
  {Undef, Null, NaN, Bool(TRUE), Bool(FALSE), Num(1), Num(2), Str("a"), Str("b")}

\* what the containers hold
Leaves == {Undef, Null, NaN, Num(1), Num(2)}
InnerLeaves == {Undef, Num(1), Num(2)}

FlatArrays == {Arr(a) : a \in SeqsUpTo(Leaves, MaxLen)}
FlatObjects == {Obj(o) : o \in PropLists({"a", "b"}, Leaves, MaxLen)}

InnerArrays == {Arr(a) : a \in SeqsUpTo(InnerLeaves, MaxLen)}
InnerObjects == {Obj(o) : o \in PropLists({"a", "b"}, InnerLeaves, MaxLen)}

\* one level deeper: a container as the value of a property
NestedObjects ==
  {Obj(<<Prop("a", c)>>) : c \in InnerArrays \cup InnerObjects}
  \cup {Obj(<<Prop("a", c), Prop("b", Num(1))>>) : c \in InnerArrays}
  \cup {Obj(<<Prop("b", Num(1)), Prop("a", c)>>) : c \in InnerArrays}

\* objects as array elements: the same properties in either key order
ElementObjects ==
  {Obj(<<Prop("a", Num(1)), Prop("b", Num(2))>>),
   Obj(<<Prop("b", Num(2)), Prop("a", Num(1))>>),
   Obj(<<Prop("a", Undef), Prop("b", Num(2))>>),
   Obj(<<Prop("b", Num(2)), Prop("a", Undef)>>)}

NestedArrays == {Arr(a) : a \in SeqsUpTo(ElementObjects, MaxLen)}

\* the values of the documented calls
John == Obj(<<Prop("name", Str("John")), Prop("age", Num(30))>>)
Jane == Obj(<<Prop("name", Str("Jane")), Prop("age", Num(30))>>)
Nums123 == Arr(<<Num(1), Num(2), Num(3)>>)
Nums234 == Arr(<<Num(2), Num(3), Num(4)>>)
Examples == {John, Jane, Nums123, Nums234}

\* objects with a third key, so that one pair can add, remove and keep keys
RekeyedObjects ==
  {Obj(<<Prop("a", v), Prop("c", w)>>) : v, w \in {Num(1), Num(2)}}

Values ==
  Primitives \cup FlatArrays \cup FlatObjects \cup NestedObjects
  \cup NestedArrays \cup Examples \cup RekeyedObjects

Names == {"user", "nums"}

---------------------------------------------------------------------------
(* The state machine: one call of diff on a pair of inputs *)

\* the documented call diff({a:1}, {a:1,b:2}, 'obj')
ObjA == Obj(<<Prop("a", Num(1))>>)
ObjAB == Obj(<<Prop("a", Num(1)), Prop("b", Num(2))>>)

DiffInit ==
  /\ \/ /\ oldValue \in Values
        /\ newValue \in Values
        /\ name \in Names
     \/ /\ oldValue = ObjA
        /\ newValue = ObjAB
        /\ name = "obj"
     \* an array against an object whose keys are indices, either way round
     \/ /\ \E a \in {Arr(<<ObjA>>), Arr(<<Num(1), Num(2)>>)},
              o \in {Obj(<<Prop("0", ObjAB)>>), Obj(<<Prop("0", Num(1))>>),
                     Obj(<<Prop("1", Num(2)), Prop("0", Arr(<<Num(1)>>))>>)} :
              \/ oldValue = a /\ newValue = o
              \/ oldValue = o /\ newValue = a
        /\ name \in Names
  /\ result = Null
  /\ pc = "call"
  /\ IdleExcept({"diff"})

\* const changes = diff(oldValue, newValue, name)
Diff ==
  /\ pc = "call"
  /\ result' = diff(oldValue, newValue, name)
  /\ pc' = "done"
  /\ UNCHANGED <<oldValue, newValue, name>>
  /\ UNCHANGED <<validatorVars, call, outcome, deferredVars, heap, data, built, calls>>

DiffNext == Diff

SpecDiff == DiffInit /\ [][DiffNext]_vars

---------------------------------------------------------------------------
(* Vocabulary of the properties *)

Called == pc = "done"

IsContainer(v) == v.t \in {"array", "object"}

\* the value stored under key k of a record built by diff, Undef if absent
Field(rec, k) ==
  IF \E i \in 1..Len(rec.o) : rec.o[i].k = k
  THEN rec.o[CHOOSE i \in 1..Len(rec.o) : rec.o[i].k = k].v
  ELSE Undef

HasField(rec, k) == \E i \in 1..Len(rec.o) : rec.o[i].k = k

\* the single value a non-absent result maps its name to
Reported(r) == r.o[1].v

RECURSIVE DeepEqual(_, _)
RECURSIVE SameOrderEqual(_, _)
RECURSIVE DeepEqualPositional(_, _)

\* deep equality: identical primitives, arrays with equal elements, objects
\* with the same key-to-value pairs whatever the key insertion order
DeepEqual(x, y) ==
  IF x.t = "array" /\ y.t = "array"
  THEN /\ Len(x.a) = Len(y.a)
       /\ \A i \in 1..Len(x.a) : DeepEqual(x.a[i], y.a[i])
  ELSE IF x.t = "object" /\ y.t = "object"
  THEN /\ Range(Keys(x)) = Range(Keys(y))
       /\ \A k \in Range(Keys(x)) : DeepEqual(Get(x, k), Get(y, k))
  ELSE ~IsContainer(x) /\ ~IsContainer(y) /\ ~StrictNotEqual(x, y)

\* deep equality that also asks for the same key insertion order
SameOrderEqual(x, y) ==
  IF x.t = "array" /\ y.t = "array"
  THEN /\ Len(x.a) = Len(y.a)
       /\ \A i \in 1..Len(x.a) : SameOrderEqual(x.a[i], y.a[i])
  ELSE IF x.t = "object" /\ y.t = "object"
  THEN /\ Keys(x) = Keys(y)
       /\ \A k \in Range(Keys(x)) : SameOrderEqual(Get(x, k), Get(y, k))
  ELSE ~IsContainer(x) /\ ~IsContainer(y) /\ ~StrictNotEqual(x, y)

\* deep equality in which key insertion order is free except inside arrays
DeepEqualPositional(x, y) ==
  IF x.t = "array" /\ y.t = "array"
  THEN /\ Len(x.a) = Len(y.a)
       /\ \A i \in 1..Len(x.a) : SameOrderEqual(x.a[i], y.a[i])
  ELSE IF x.t = "object" /\ y.t = "object"
  THEN /\ Range(Keys(x)) = Range(Keys(y))
       /\ \A k \in Range(Keys(x)) : DeepEqualPositional(Get(x, k), Get(y, k))
  ELSE ~IsContainer(x) /\ ~IsContainer(y) /\ ~StrictNotEqual(x, y)

---------------------------------------------------------------------------
(* C1: diff(x, x, n) is absent for every acyclic value x.                  *)
(* Stated as claimed; the code reports NaN (alone or under a property) as  *)
(* changed, because NaN !== NaN.                                           *)
DiffOfSelfAbsent ==
  (Called /\ oldValue = newValue) => result = Null

---------------------------------------------------------------------------
(* C2 as claimed: diff is absent for every two deeply equal values, key    *)
(* insertion order being irrelevant also for objects inside arrays.        *)
DeepEqualAbsent ==
  (Called /\ DeepEqual(oldValue, newValue)) => result = Null

(* C2 as amended: diff is absent for every two deeply equal values, where  *)
(* key insertion order is irrelevant for the objects compared key by key   *)
(* but the elements of two arrays must agree in key insertion order too.   *)
DeepEqualPositionalAbsent ==
  (Called /\ DeepEqualPositional(oldValue, newValue)) => result = Null

\* two objects in different key order, holding equal arrays, found equal
DeepEqualPositionalWitness ==
  /\ Called
  /\ oldValue.t = "object" /\ newValue.t = "object"
  /\ Keys(oldValue) # Keys(newValue)
  /\ \E k \in Range(Keys(oldValue)) : IsArray(Get(oldValue, k))
  /\ DeepEqualPositional(oldValue, newValue)
  /\ result = Null

---------------------------------------------------------------------------
(* C3 as claimed: two non-array objects with the same keys that differ in  *)
(* exactly one primitive-valued key give { name: [c] }, c being the        *)
(* 'Value changed' record itself. The code wraps c as { key: c }.          *)
ValueChangedRecord(old, new) ==
  Obj(<<Prop("description", Str("Value changed")),
        Prop("oldValue", old),
        Prop("newValue", new)>>)

DiffersInOnePrimitiveKey(x, y, k) ==
  /\ x.t = "object" /\ y.t = "object"
  /\ Range(Keys(x)) = Range(Keys(y))
  /\ k \in Range(Keys(x))
  /\ ~IsContainer(Get(x, k)) /\ ~IsContainer(Get(y, k))
  /\ ~IsNullish(Get(x, k)) /\ ~IsNullish(Get(y, k))
  /\ TypeOf(Get(x, k)) = TypeOf(Get(y, k))
  /\ Get(x, k).t # "NaN" /\ Get(y, k).t # "NaN"
  /\ Get(x, k) # Get(y, k)
  /\ \A j \in Range(Keys(x)) \ {k} : DeepEqual(Get(x, j), Get(y, j))

\* C3: the list of such a result holds the 'Value changed' record itself
SingleChangeListsRecord ==
  (Called /\ oldValue.t = "object" /\ newValue.t = "object") =>
    \A k \in Range(Keys(oldValue)) :
      DiffersInOnePrimitiveKey(oldValue, newValue, k) =>
        result = Entry(name, Arr(<<ValueChangedRecord(Get(oldValue, k),
                                                      Get(newValue, k))>>))

---------------------------------------------------------------------------
(* C4: detection is symmetric: diff(a, b, n) is absent exactly when        *)
(* diff(b, a, n) is absent.                                                *)
DetectionSymmetric ==
  Called => ((result = Null) <=> (diff(newValue, oldValue, name) = Null))

\* a difference found in both directions, with different contents
DetectionSymmetricWitness ==
  /\ Called
  /\ IsArray(oldValue) /\ IsArray(newValue)
  /\ Len(newValue.a) < Len(oldValue.a)
  /\ result # Null
  /\ HasField(Reported(result), "removed")
  /\ ~HasField(Reported(result), "added")
  /\ diff(newValue, oldValue, name) # Null
  /\ diff(newValue, oldValue, name) # result

---------------------------------------------------------------------------
(* C5: a non-absent result maps exactly one key, the name, to one change   *)
(* record (type changed, property added, property removed, array modified, *)
(* value changed) or, when two objects were compared, to a non-empty list  *)
(* of entries; an empty list is never returned.                            *)
TypeNames == {"undefined", "boolean", "number", "string", "object"}

SingleDescriptions ==
  {"Property added", "Property removed", "Array modified", "Value changed"}
  \cup {"Type changed from " \o x \o " to " \o y : x, y \in TypeNames}

ListDescriptions == {"Properties added", "Properties removed"}

IsRecordOf(v, descriptions) ==
  /\ v.t = "object"
  /\ Len(v.o) >= 1
  /\ v.o[1].k = "description"
  /\ v.o[1].v.t = "string"
  /\ v.o[1].v.s \in descriptions

RECURSIVE IsDiffResult(_)

IsDiffResult(r) ==
  /\ r.t = "object"
  /\ Len(r.o) = 1
  /\ \/ IsRecordOf(r.o[1].v, SingleDescriptions)
     \/ /\ r.o[1].v.t = "array"
        /\ Len(r.o[1].v.a) > 0
        /\ \A i \in 1..Len(r.o[1].v.a) :
             \/ IsRecordOf(r.o[1].v.a[i], ListDescriptions)
             \/ IsDiffResult(r.o[1].v.a[i])

---------------------------------------------------------------------------
(* C6: when the values are not both nullish and their typeof tags differ,  *)
(* the result is one type-changed record holding the two serializations,   *)
(* whatever else holds of the values (one nullish, arrays, objects).       *)
TypeChangeFirst ==
  (/\ Called
   /\ ~(IsNullish(oldValue) /\ IsNullish(newValue))
   /\ TypeOf(oldValue) # TypeOf(newValue)) =>
    result =
      Obj(<<Prop(name, Obj(<<
        Prop("description",
             Str("Type changed from " \o TypeOf(oldValue)
                 \o " to " \o TypeOf(newValue))),
        Prop("oldValue", serializeValue(oldValue)),
        Prop("newValue", serializeValue(newValue))>>))>>)

\* undefined against a defined value: type changed, not property added
TypeChangeFirstWitness ==
  /\ Called
  /\ oldValue = Undef
  /\ newValue.t = "number"
  /\ result # Null
  /\ Field(Reported(result), "description")
       = Str("Type changed from undefined to number")
  /\ Field(Reported(result), "newValue") = Str(ToString(newValue.n))

---------------------------------------------------------------------------
(* C7: when exactly one value is nullish and the typeof tags agree, an old *)
(* nullish value gives one property-added record with only newValue, a new *)
(* nullish value one property-removed record with only oldValue.           *)
AddedOrRemoved ==
  (Called /\ TypeOf(oldValue) = TypeOf(newValue)) =>
    /\ (IsNullish(oldValue) /\ ~IsNullish(newValue)) =>
         result = Obj(<<Prop(name, Obj(<<
           Prop("description", Str("Property added")),
           Prop("newValue", serializeValue(newValue))>>))>>)
    /\ (~IsNullish(oldValue) /\ IsNullish(newValue)) =>
         result = Obj(<<Prop(name, Obj(<<
           Prop("description", Str("Property removed")),
           Prop("oldValue", serializeValue(oldValue))>>))>>)

\* null against an object with a property
AddedOrRemovedWitness ==
  /\ Called
  /\ oldValue = Null
  /\ newValue.t = "object" /\ Len(newValue.o) > 0
  /\ result # Null
  /\ Field(Reported(result), "description") = Str("Property added")
  /\ ~HasField(Reported(result), "oldValue")

---------------------------------------------------------------------------
(* C8: two arrays give no result exactly when their sets of serialized     *)
(* elements are equal, whatever the order and the multiplicities.          *)
ElementTexts(v) == {serializeValue(x) : x \in Range(v.a)}

\* C8: absent for two arrays iff the serialized element sets are equal
ArraysAbsentIffSameSet ==
  (Called /\ IsArray(oldValue) /\ IsArray(newValue)) =>
    ((result = Null) <=> (ElementTexts(oldValue) = ElementTexts(newValue)))

\* the same element, twice on one side and once on the other
ArraysAbsentIffSameSetWitness ==
  /\ Called
  /\ IsArray(oldValue) /\ IsArray(newValue)
  /\ Len(oldValue.a) > Len(newValue.a)
  /\ Len(newValue.a) > 0
  /\ ElementTexts(oldValue) = ElementTexts(newValue)
  /\ result = Null

---------------------------------------------------------------------------
(* C9: two arrays whose serialized element sets differ give exactly one    *)
(* 'Array modified' record; removed serializes the old elements that do    *)
(* not occur in the new array, added the new elements that do not occur in *)
(* the old one, and a field whose list is empty is left out.               *)
OnlyIn(v, w) == SelectSeq(v.a, LAMBDA x : serializeValue(x) \notin ElementTexts(w))

\* C9: the 'Array modified' record of two arrays with different element sets
ArrayModifiedRecord ==
  (/\ Called
   /\ IsArray(oldValue) /\ IsArray(newValue)
   /\ ElementTexts(oldValue) # ElementTexts(newValue)) =>
    /\ result # Null
    /\ result.o[1].k = name /\ Len(result.o) = 1
    /\ Field(Reported(result), "description") = Str("Array modified")
    /\ Keys(Reported(result)) =
         <<"description">>
         \o (IF OnlyIn(oldValue, newValue) # <<>> THEN <<"removed">> ELSE <<>>)
         \o (IF OnlyIn(newValue, oldValue) # <<>> THEN <<"added">> ELSE <<>>)
    /\ HasField(Reported(result), "removed") =>
         Field(Reported(result), "removed")
           = serializeValue(Arr(OnlyIn(oldValue, newValue)))
    /\ HasField(Reported(result), "added") =>
         Field(Reported(result), "added")
           = serializeValue(Arr(OnlyIn(newValue, oldValue)))
    /\ (oldValue = Nums123 /\ newValue = Nums234) =>
         /\ Field(Reported(result), "removed") = Str("[1]")
         /\ Field(Reported(result), "added") = Str("[4]")

\* the documented call diff([1,2,3], [2,3,4], 'nums')
ArrayModifiedRecordWitness ==
  /\ Called
  /\ oldValue = Nums123 /\ newValue = Nums234 /\ name = "nums"
  /\ result = Obj(<<Prop("nums", Obj(<<
       Prop("description", Str("Array modified")),
       Prop("removed", Str("[1]")),
       Prop("added", Str("[4]"))>>))>>)

---------------------------------------------------------------------------
(* C10 as claimed: in a comparison of two arrays, an old and a new element *)
(* object with identical key/value pairs but different key insertion order *)
(* are different elements: the old one is reported under removed and the   *)
(* new one under added.                                                    *)
SamePairs(x, y) ==
  /\ x.t = "object" /\ y.t = "object"
  /\ Range(Keys(x)) = Range(Keys(y))
  /\ \A k \in Range(Keys(x)) : Get(x, k) = Get(y, k)

ReportedUnder(field, x, list) ==
  /\ result # Null
  /\ Reported(result).t = "object"
  /\ HasField(Reported(result), field)
  /\ Field(Reported(result), field) = serializeValue(Arr(list))
  /\ x \in Range(list)

\* C10 as claimed: key order alone makes two element objects different
KeyOrderDistinguishes ==
  (Called /\ IsArray(oldValue) /\ IsArray(newValue)) =>
    \A i \in 1..Len(oldValue.a), j \in 1..Len(newValue.a) :
      (/\ SamePairs(oldValue.a[i], newValue.a[j])
       /\ Keys(oldValue.a[i]) # Keys(newValue.a[j])) =>
        /\ ReportedUnder("removed", oldValue.a[i], OnlyIn(oldValue, newValue))
        /\ ReportedUnder("added", newValue.a[j], OnlyIn(newValue, oldValue))

(* C10 as amended: such a pair of element objects is told apart exactly    *)
(* when the two serializations differ (a property whose value is undefined *)
(* is not serialized, so its position does not count); then the old one is *)
(* reported under removed unless the new array holds an element with the   *)
(* old one's serialization, and the new one under added unless the old     *)
(* array holds an element with the new one's serialization.                *)
KeyOrderDistinguishesSerialized ==
  (Called /\ IsArray(oldValue) /\ IsArray(newValue)) =>
    \A i \in 1..Len(oldValue.a), j \in 1..Len(newValue.a) :
      (/\ SamePairs(oldValue.a[i], newValue.a[j])
       /\ Keys(oldValue.a[i]) # Keys(newValue.a[j])
       /\ serializeValue(oldValue.a[i]) # serializeValue(newValue.a[j])) =>
        /\ serializeValue(oldValue.a[i]) \notin ElementTexts(newValue) =>
             ReportedUnder("removed", oldValue.a[i], OnlyIn(oldValue, newValue))
        /\ serializeValue(newValue.a[j]) \notin ElementTexts(oldValue) =>
             ReportedUnder("added", newValue.a[j], OnlyIn(newValue, oldValue))

\* [{a:1,b:2}] against [{b:2,a:1}]
KeyOrderDistinguishesWitness ==
  /\ Called
  /\ oldValue = Arr(<<Obj(<<Prop("a", Num(1)), Prop("b", Num(2))>>)>>)
  /\ newValue = Arr(<<Obj(<<Prop("b", Num(2)), Prop("a", Num(1))>>)>>)
  /\ result # Null
  /\ Field(Reported(result), "removed") = Str("[{\"a\":1,\"b\":2}]")
  /\ Field(Reported(result), "added") = Str("[{\"b\":2,\"a\":1}]")

---------------------------------------------------------------------------
(* C11: two non-array objects give the ordered list: one 'Properties       *)
(* added' record mapping each key only in new to its raw new value (if     *)
(* any), one 'Properties removed' record listing the keys only in old (if  *)
(* any), then the non-absent results of the common keys in the old         *)
(* object's key order; an empty list gives no result.                      *)
OnlyKeys(x, y) == SelectSeq(Keys(x), LAMBDA k : \A i \in 1..Len(y.o) : y.o[i].k # k)

RECURSIVE PerKeyResults(_, _, _)

\* the non-absent results of the keys ks that x shares with y, in order
PerKeyResults(ks, x, y) ==
  IF ks = <<>> THEN <<>>
  ELSE (IF /\ \E i \in 1..Len(y.o) : y.o[i].k = Head(ks)
           /\ diff(Get(x, Head(ks)), Get(y, Head(ks)), Head(ks)) # Null
        THEN <<diff(Get(x, Head(ks)), Get(y, Head(ks)), Head(ks))>>
        ELSE <<>>)
       \o PerKeyResults(Tail(ks), x, y)

ExpectedList(x, y) ==
  (IF OnlyKeys(y, x) # <<>>
   THEN <<Obj(<<Prop("description", Str("Properties added")),
                Prop("properties",
                     Obj(SelectSeq(y.o, LAMBDA p :
                           \A i \in 1..Len(x.o) : x.o[i].k # p.k)))>>)>>
   ELSE <<>>)
  \o (IF OnlyKeys(x, y) # <<>>
      THEN <<Obj(<<Prop("description", Str("Properties removed")),
                   Prop("properties",
                        Arr([i \in 1..Len(OnlyKeys(x, y)) |->
                               Str(OnlyKeys(x, y)[i])]))>>)>>
      ELSE <<>>)
  \o PerKeyResults(Keys(x), x, y)

---------------------------------------------------------------------------
(* C12 as claimed: the key-by-key comparison is applied only when neither  *)
(* value is an array; an array and a non-array object are never compared   *)
(* key by key. The code sends every pair of typeof 'object' values that    *)
(* are not both arrays into the object branch.                             *)
MixedPair(x, y) ==
  \/ x.t = "array" /\ y.t = "object"
  \/ x.t = "object" /\ y.t = "array"

KeyComparisonOnlyForObjects ==
  (Called /\ MixedPair(oldValue, newValue)) =>
    ~(result # Null /\ IsArray(Reported(result)))

---------------------------------------------------------------------------
(* C13: two primitives of the same type give one 'Value changed' record    *)
(* with the two raw values when they are not identical, and no result when *)
(* they are identical.                                                     *)
Identical(x, y) == x = y /\ x.t # "NaN"

PrimitivesCompared ==
  (/\ Called
   /\ ~IsContainer(oldValue) /\ ~IsContainer(newValue)
   /\ TypeOf(oldValue) = TypeOf(newValue)) =>
    result = (IF Identical(oldValue, newValue) THEN Null
              ELSE Obj(<<Prop(name, Obj(<<
                     Prop("description", Str("Value changed")),
                     Prop("oldValue", oldValue),
                     Prop("newValue", newValue)>>))>>))

\* two different strings
PrimitivesComparedWitness ==
  /\ Called
  /\ oldValue.t = "string" /\ newValue.t = "string"
  /\ oldValue # newValue
  /\ result # Null
  /\ Field(Reported(result), "description") = Str("Value changed")
  /\ Field(Reported(result), "oldValue") = oldValue
  /\ Field(Reported(result), "newValue") = newValue

---------------------------------------------------------------------------
(* DocumentValidator (src/unnamed/part_003, lines 155-272).                *)
(* A string is [t |-> "string", c |-> its characters]; a call ends by      *)
(* returning a boolean or by throwing. checksum tells whether the call     *)
(* went past the format test into the checksum computation.                *)

Text(chars) == [t |-> "string", c |-> chars]

Returned(value, checksum) ==
  [kind |-> "return", value |-> value, checksum |-> checksum]

\* TypeError: Cannot read properties of null / undefined
Thrown == [kind |-> "throw"]

DigitChars == <<"0", "1", "2", "3", "4", "5", "6", "7", "8", "9">>

UpperChars ==
  <<"A", "B", "C", "D", "E", "F", "G", "H", "I", "J", "K", "L", "M",
    "N", "O", "P", "Q", "R", "S", "T", "U", "V", "W", "X", "Y", "Z">>

LowerChars ==
  <<"a", "b", "c", "d", "e", "f", "g", "h", "i", "j", "k", "l", "m",
    "n", "o", "p", "q", "r", "s", "t", "u", "v", "w", "x", "y", "z">>

IndexOf(chars, c) == CHOOSE i \in 1..Len(chars) : chars[i] = c

DigitSet == Range(DigitChars)
UpperSet == Range(UpperChars)
LowerSet == Range(LowerChars)

\* the value of each digit character, the upper case of each lower-case
\* letter and the lower case of each upper-case letter
DigitValue == [c \in DigitSet |-> IndexOf(DigitChars, c) - 1]
UpperCaseOf == [c \in LowerSet |-> UpperChars[IndexOf(LowerChars, c)]]
LowerCaseOf == [c \in UpperSet |-> LowerChars[IndexOf(UpperChars, c)]]

\* [0-9], [A-Z] and [A-Z0-9] of the format tests
IsDigit(c) == c \in DigitSet
IsUpper(c) == c \in UpperSet
IsAlnum(c) == IsDigit(c) \/ IsUpper(c)

\* a variant that leaves whitespace in
IsSeparatorHyphenOnly(c) == c = "-"

\* the class [-\s] of the pattern in normalize
IsSeparator(c) == c \in {"-", " "}

\* String.prototype.toUpperCase on one character
toUpperCase(c) ==
  IF c \in LowerSet THEN UpperCaseOf[c] ELSE c

\* c.charCodeAt(0) of a digit or an upper-case letter
charCodeAt(c) ==
  IF IsDigit(c) THEN 47 + IndexOf(DigitChars, c) ELSE 64 + IndexOf(UpperChars, c)

\* value.replace(/[-\s]/g, '').toUpperCase(), on the characters of a string
normalizeChars(chars) ==
  LET stripped == SelectSeq(chars, LAMBDA c : ~IsSeparator(c))
  IN  [i \in 1..Len(stripped) |-> toUpperCase(stripped[i])]

\* normalize(value): calling .replace on null or undefined throws
normalize(value) ==
  IF value.t = "string" THEN Text(normalizeChars(value.c)) ELSE Thrown

\* a variant that only catches the empty string
FalsyEmptyOnly(value) == value = Text(<<>>)

\* !value: null, undefined and the empty string
Falsy(value) == value.t \in {"null", "undefined"} \/ value = Text(<<>>)

\* s.slice(from, to), zero-based and end-exclusive
slice(chars, from, to) == SubSeq(chars, from + 1, to)

RECURSIVE parseInt(_)

\* parseInt(digits, 10) of a string of decimal digits
parseInt(digits) ==
  IF digits = <<>> THEN 0
  ELSE parseInt(SubSeq(digits, 1, Len(digits) - 1)) * 10
       + DigitValue[digits[Len(digits)]]

\* DNI letter table: index = remainder, value = letter
DNI_LETTERS ==
  <<"T", "R", "W", "A", "G", "M", "Y", "F", "P", "D", "X", "B",
    "N", "J", "Z", "S", "Q", "V", "H", "L", "C", "K", "E">>

\* a variant that is off by one in the table
expectedLetterShifted(number) == DNI_LETTERS[((number + 1) % 23) + 1]

\* DNI_LETTERS[number % 23], zero-based
expectedLetter(number) == DNI_LETTERS[(number % 23) + 1]

\* /^[0-9]{8}[A-Z]$/
MatchesDNI(n) ==
  /\ Len(n) = 9
  /\ \A i \in 1..8 : IsDigit(n[i])
  /\ IsUpper(n[9])

isValidDNI(dni) ==
  IF Falsy(dni) THEN Returned(FALSE, FALSE)
  ELSE
    LET normalized == normalize(dni)
        number == parseInt(slice(normalized.c, 0, 8))
        letter == normalized.c[9]
    IN  IF normalized = Thrown THEN Thrown
        ELSE IF ~MatchesDNI(normalized.c) THEN Returned(FALSE, FALSE)
        ELSE Returned(letter = expectedLetter(number), TRUE)

\* /^[XYZ][0-9]{7}[A-Z]$/
MatchesNIE(n) ==
  /\ Len(n) = 9
  /\ n[1] \in {"X", "Y", "Z"}
  /\ \A i \in 2..8 : IsDigit(n[i])
  /\ IsUpper(n[9])

\* a variant that counts the prefixes from one
prefixValueFromOne(prefix) ==
  CASE prefix = "X" -> "1" [] prefix = "Y" -> "2" [] prefix = "Z" -> "3"

\* { X: '0', Y: '1', Z: '2' }
prefixValue(prefix) ==
  CASE prefix = "X" -> "0" [] prefix = "Y" -> "1" [] prefix = "Z" -> "2"

\* prefixValue[prefix] + normalized.slice(1, 8)
numberStr(n) == <<prefixValue(n[1])>> \o slice(n, 1, 8)

isValidNIE(nie) ==
  IF Falsy(nie) THEN Returned(FALSE, FALSE)
  ELSE
    LET normalized == normalize(nie)
        number == parseInt(numberStr(normalized.c))
        letter == normalized.c[9]
    IN  IF normalized = Thrown THEN Thrown
        ELSE IF ~MatchesNIE(normalized.c) THEN Returned(FALSE, FALSE)
        ELSE Returned(letter = DNI_LETTERS[(number % 23) + 1], TRUE)

\* /^[0-9]{12}$/
MatchesSSN(n) ==
  /\ Len(n) = 12
  /\ \A i \in 1..12 : IsDigit(n[i])

\* a variant that always shifts the province by eight digits
multiplierEightDigits(number) == 100000000

\* number < 10000000 ? 10000000 : 100000000
multiplier(number) == IF number < 10000000 THEN 10000000 ELSE 100000000

\* (province * multiplier + number) % 97. The product stays below 2^53, so
\* the source computes it exactly; it is reduced modulo 97 factor by factor
\* here, which gives the same remainder within 32-bit integers.
expected(province, number) ==
  ((province % 97) * (multiplier(number) % 97) + number) % 97

isValidSpanishSSN(ssn) ==
  IF Falsy(ssn) THEN Returned(FALSE, FALSE)
  ELSE
    LET normalized == normalize(ssn)
        province == parseInt(slice(normalized.c, 0, 2))
        number == parseInt(slice(normalized.c, 2, 10))
        checksum == parseInt(slice(normalized.c, 10, 12))
    IN  IF normalized = Thrown THEN Thrown
        ELSE IF ~MatchesSSN(normalized.c) THEN Returned(FALSE, FALSE)
        ELSE IF province < 1 \/ province > 52 THEN Returned(FALSE, FALSE)
        ELSE Returned(checksum = expected(province, number), TRUE)

\* /^[A-Z]{2}[0-9]{2}[A-Z0-9]{9,30}$/
MatchesIBAN(n) ==
  /\ Len(n) >= 13 /\ Len(n) <= 34
  /\ IsUpper(n[1]) /\ IsUpper(n[2])
  /\ IsDigit(n[3]) /\ IsDigit(n[4])
  /\ \A i \in 5..Len(n) : IsAlnum(n[i])

\* normalized.slice(4) + normalized.slice(0, 4)
rearranged(n) == slice(n, 4, Len(n)) \o slice(n, 0, 4)

\* (n).toString() of a number from 10 to 35
toString(n) == <<DigitChars[(n \div 10) + 1], DigitChars[(n % 10) + 1]>>

\* code >= 65 ? (code - 55).toString() : c
convert(c) == IF charCodeAt(c) >= 65 THEN toString(charCodeAt(c) - 55) ELSE <<c>>

RECURSIVE numeric(_)

\* rearranged.split('').map(convert).join('')
numeric(chars) ==
  IF chars = <<>> THEN <<>> ELSE convert(Head(chars)) \o numeric(Tail(chars))

\* a variant whose modulus lost its second digit
accumulateMod9(remainder, digit) ==
  (remainder * 10 + parseInt(<<digit>>)) % 9

\* a variant that lets the remainder grow until the end
accumulateLate(remainder, digit) ==
  IF remainder < 1000 THEN remainder * 10 + parseInt(<<digit>>)
  ELSE (remainder * 10 + parseInt(<<digit>>)) % 97

\* remainder = (remainder * 10 + parseInt(digit, 10)) % 97
accumulate(remainder, digit) ==
  (remainder * 10 + parseInt(<<digit>>)) % 97

RECURSIVE remainderOf(_, _)

\* the loop over the digits of numeric, from the remainder so far
remainderOf(digits, remainder) ==
  IF digits = <<>> THEN remainder
  ELSE remainderOf(Tail(digits), accumulate(remainder, Head(digits)))

isValidIBAN(iban) ==
  IF Falsy(iban) THEN Returned(FALSE, FALSE)
  ELSE
    LET normalized == normalize(iban)
    IN  IF normalized = Thrown THEN Thrown
        ELSE IF ~MatchesIBAN(normalized.c) THEN Returned(FALSE, FALSE)
        ELSE Returned(remainderOf(numeric(rearranged(normalized.c)), 0) = 1, TRUE)

---------------------------------------------------------------------------
(* The arguments of the validators: well-formed identifiers with every     *)
(* check letter / check digits, the documented examples written with       *)
(* separators, lower case and a foreign character, and the empty values.   *)

\* how many trailing digits of the DNI number run over all digits
FreeDigits == 2

DigitStrings(n) == [1..n -> DigitSet]

Digits12345678 == <<"1", "2", "3", "4", "5", "6", "7", "8">>

DniStrings ==
  {SubSeq(Digits12345678, 1, 8 - FreeDigits) \o d \o <<l>> :
     d \in DigitStrings(FreeDigits), l \in UpperSet}

NieStrings ==
  {<<p>> \o SubSeq(Digits12345678, 1, 6) \o d \o <<l>> :
     p \in {"X", "Y", "Z"}, d \in DigitStrings(1), l \in UpperSet}

Provinces ==
  {<<"0", "0">>, <<"0", "1">>, <<"2", "8">>, <<"5", "2">>, <<"5", "3">>, <<"9", "9">>}

SequenceNumbers ==
  {<<"0", "0", "0", "0", "0", "0", "0", "0">>,
   <<"0", "1", "2", "3", "4", "5", "6", "7">>,
   <<"0", "9", "9", "9", "9", "9", "9", "9">>,
   <<"1", "0", "0", "0", "0", "0", "0", "0">>,
   Digits12345678,
   <<"9", "9", "9", "9", "9", "9", "9", "9">>}

SsnStrings ==
  {p \o n \o k : p \in Provinces, n \in SequenceNumbers, k \in DigitStrings(2)}

\* the account parts of ES91 2100 0418 4502 0005 1332 and
\* GB82 WEST 1234 5698 7654 32
SpanishAccount ==
  <<"2", "1", "0", "0", "0", "4", "1", "8", "4", "5",
    "0", "2", "0", "0", "0", "5", "1", "3", "3", "2">>

BritishAccount ==
  <<"W", "E", "S", "T", "1", "2", "3", "4", "5", "6", "9", "8", "7", "6", "5", "4", "3", "2">>

\* accounts of 8 (too short), 9, 30 and 31 (too long) characters
Accounts ==
  {SpanishAccount, BritishAccount, Digits12345678,
   Digits12345678 \o Digits12345678 \o Digits12345678 \o SubSeq(Digits12345678, 1, 6),
   Digits12345678 \o Digits12345678 \o Digits12345678 \o SubSeq(Digits12345678, 1, 7)}
  \cup {Digits12345678 \o d : d \in DigitStrings(1)}

IbanStrings ==
  {c \o k \o a : c \in {<<"E", "S">>, <<"G", "B">>}, k \in DigitStrings(2), a \in Accounts}

\* the documented identifiers
DniExample == Digits12345678 \o <<"Z">>
NieExample == <<"X", "1", "2", "3", "4", "5", "6", "7", "L">>
SsnExample == <<"2", "8">> \o Digits12345678 \o <<"4", "0">>
IbanExample == <<"E", "S", "9", "1">> \o SpanishAccount
DocumentExamples == {DniExample, NieExample, SsnExample, IbanExample}

\* a string with the character c put in before position i + 1
Insert(chars, i, c) == SubSeq(chars, 1, i) \o <<c>> \o SubSeq(chars, i + 1, Len(chars))

\* a string without its character at position i
Remove(chars, i) == SubSeq(chars, 1, i - 1) \o SubSeq(chars, i + 1, Len(chars))

toLowerCase(c) ==
  IF c \in UpperSet THEN LowerCaseOf[c] ELSE c

LowerCased(chars) == [i \in 1..Len(chars) |-> toLowerCase(chars[i])]

Decorated(chars) ==
  {LowerCased(chars)}
  \cup {Insert(w, i, c) :
          w \in {chars, LowerCased(chars)}, i \in 0..Len(chars), c \in {"-", " ", "."}}

Inputs ==
  {Null, Undef, Text(<<>>), Text(<<"-">>), Text(<<" ", "-">>), Text(<<"1", "2", "3", "4">>)}
  \cup {Text(w) : w \in DniStrings \cup NieStrings \cup SsnStrings \cup IbanStrings}
  \cup {Text(w) : w \in UNION {Decorated(e) : e \in DocumentExamples}}

---------------------------------------------------------------------------
(* The state machine: one call of one validator on an argument *)

ValidatorInit ==
  /\ input \in Inputs
  /\ validator = "none"
  /\ verdict = [kind |-> "none"]
  /\ pc = "call"
  /\ IdleExcept({"validators"})

\* validator.isValidDNI(input)
CallIsValidDNI ==
  /\ pc = "call"
  /\ validator' = "isValidDNI"
  /\ verdict' = isValidDNI(input)
  /\ pc' = "done"
  /\ UNCHANGED <<input, oldValue, newValue, name, result, call, outcome, deferredVars, heap, data, built, calls>>

\* validator.isValidNIE(input)
CallIsValidNIE ==
  /\ pc = "call"
  /\ validator' = "isValidNIE"
  /\ verdict' = isValidNIE(input)
  /\ pc' = "done"
  /\ UNCHANGED <<input, oldValue, newValue, name, result, call, outcome, deferredVars, heap, data, built, calls>>

\* validator.isValidSpanishSSN(input)
CallIsValidSpanishSSN ==
  /\ pc = "call"
  /\ validator' = "isValidSpanishSSN"
  /\ verdict' = isValidSpanishSSN(input)
  /\ pc' = "done"
  /\ UNCHANGED <<input, oldValue, newValue, name, result, call, outcome, deferredVars, heap, data, built, calls>>

\* validator.isValidIBAN(input)
CallIsValidIBAN ==
  /\ pc = "call"
  /\ validator' = "isValidIBAN"
  /\ verdict' = isValidIBAN(input)
  /\ pc' = "done"
  /\ UNCHANGED <<input, oldValue, newValue, name, result, call, outcome, deferredVars, heap, data, built, calls>>

ValidatorNext ==
  \/ CallIsValidDNI
  \/ CallIsValidNIE
  \/ CallIsValidSpanishSSN
  \/ CallIsValidIBAN

SpecValidators == ValidatorInit /\ [][ValidatorNext]_vars

---------------------------------------------------------------------------
(* Vocabulary of the validator properties *)

Ended(which) == pc = "done" /\ validator = which

IsText(value) == value.t = "string"

\* the value of the digit character c
DigitOf(c) == CHOOSE d \in 0..9 : DigitChars[d + 1] = c

RECURSIVE PowerMod(_, _, _)

\* base^exponent modulo m
PowerMod(base, exponent, m) ==
  IF exponent = 0 THEN 1 % m ELSE (base * PowerMod(base, exponent - 1, m)) % m

\* 10^place modulo 97, for the places of the longest digit string (an IBAN
\* of 34 letters)
PowerOfTenMod97 == [place \in 0..68 |-> PowerMod(10, place, 97)]

RECURSIVE WeightedSum(_)

\* the sum of digit * (10^place mod 97) over a digit string
WeightedSum(digits) ==
  IF digits = <<>> THEN 0
  ELSE DigitOf(Head(digits)) * PowerOfTenMod97[Len(digits) - 1]
       + WeightedSum(Tail(digits))

\* the integer denoted by a digit string, modulo 97
DenotedMod97(digits) == WeightedSum(digits) % 97

\* the integer denoted by a string of at most nine digits
Denoted(digits) ==
  LET RECURSIVE Sum(_)
      Sum(ds) == IF ds = <<>> THEN 0
                 ELSE DigitOf(Head(ds)) * (10 ^ (Len(ds) - 1)) + Sum(Tail(ds))
  IN  Sum(digits)

\* the normalization of a non-empty string argument, <<>> otherwise
Normalized(value) == IF IsText(value) THEN normalizeChars(value.c) ELSE <<>>

---------------------------------------------------------------------------
(* C14: isValidDNI(s) is true exactly when s is non-empty, its             *)
(* normalization is eight digits and a capital letter, and the letter is   *)
(* the one at index (n mod 23) of DNI_LETTERS, n being the number the      *)
(* digits form; '12345678Z' is valid and '12345678A' is not.               *)
DniFormat(n) ==
  /\ Len(n) = 9
  /\ \A i \in 1..8 : n[i] \in DigitSet
  /\ n[9] \in UpperSet

DniChecks(n) ==
  /\ DniFormat(n)
  /\ n[9] = DNI_LETTERS[(Denoted(SubSeq(n, 1, 8)) % 23) + 1]

DniVerdict ==
  Ended("isValidDNI") =>
    /\ verdict.kind = "return"
    /\ verdict.value = (~Falsy(input) /\ DniChecks(Normalized(input)))
    /\ input = Text(DniExample) => verdict.value = TRUE
    /\ input = Text(Digits12345678 \o <<"A">>) => verdict.value = FALSE

\* an accepted DNI other than the documented one
DniVerdictWitness ==
  /\ Ended("isValidDNI")
  /\ IsText(input)
  /\ Normalized(input) # DniExample
  /\ verdict = Returned(TRUE, TRUE)

---------------------------------------------------------------------------
(* C15: isValidNIE(s) is true exactly when the normalization of s is X, Y  *)
(* or Z, seven digits and a capital letter, and isValidDNI accepts the     *)
(* string with the leading X, Y or Z replaced by 0, 1 or 2.                *)
NieFormat(n) ==
  /\ Len(n) = 9
  /\ n[1] \in {"X", "Y", "Z"}
  /\ \A i \in 2..8 : n[i] \in DigitSet
  /\ n[9] \in UpperSet

AsDni(n) ==
  <<IF n[1] = "X" THEN "0" ELSE IF n[1] = "Y" THEN "1" ELSE "2">>
  \o SubSeq(n, 2, 9)

NieVerdict ==
  Ended("isValidNIE") =>
    /\ verdict.kind = "return"
    /\ verdict.value =
         (/\ ~Falsy(input)
          /\ NieFormat(Normalized(input))
          /\ isValidDNI(Text(AsDni(Normalized(input)))) = Returned(TRUE, TRUE))

\* an accepted NIE that starts with Y
NieVerdictWitness ==
  /\ Ended("isValidNIE")
  /\ IsText(input)
  /\ Len(input.c) = 9
  /\ input.c[1] = "Y"
  /\ verdict = Returned(TRUE, TRUE)

---------------------------------------------------------------------------
(* C16: isValidSpanishSSN(s) is true exactly when the normalization of s   *)
(* is 12 digits, the province (digits 1-2) is in 1..52 and digits 11-12    *)
(* equal (province * m + number) mod 97, number being digits 3-10 and m    *)
(* 10^7 if number < 10^7 and 10^8 otherwise; a province of 00 or 53..99 is *)
(* rejected whatever the last two digits are.                              *)
SsnFormat(n) ==
  /\ Len(n) = 12
  /\ \A i \in 1..12 : n[i] \in DigitSet

\* province * m + number is the number written by the province digits and
\* the number without its leading zero (number < 10^7) or in full
SsnShifted(n) ==
  IF Denoted(SubSeq(n, 3, 10)) < 10000000
  THEN SubSeq(n, 1, 2) \o SubSeq(n, 4, 10)
  ELSE SubSeq(n, 1, 10)

SsnChecks(n) ==
  /\ SsnFormat(n)
  /\ Denoted(SubSeq(n, 1, 2)) \in 1..52
  /\ Denoted(SubSeq(n, 11, 12)) = DenotedMod97(SsnShifted(n))

SsnVerdict ==
  Ended("isValidSpanishSSN") =>
    /\ verdict.kind = "return"
    /\ verdict.value = (~Falsy(input) /\ SsnChecks(Normalized(input)))
    /\ (/\ SsnFormat(Normalized(input))
        /\ Denoted(SubSeq(Normalized(input), 1, 2)) \notin 1..52) =>
         verdict.value = FALSE

\* an accepted number below 10^7 in province 52
SsnVerdictWitness ==
  /\ Ended("isValidSpanishSSN")
  /\ IsText(input)
  /\ Len(input.c) = 12
  /\ SubSeq(input.c, 1, 3) = <<"5", "2", "0">>
  /\ input.c[4] # "0"
  /\ verdict = Returned(TRUE, TRUE)

---------------------------------------------------------------------------
(* C17: isValidIBAN(s) is true exactly when the normalization of s is two  *)
(* letters, two digits and 9 to 30 letters or digits, and the integer      *)
(* written by moving the first four characters to the end and replacing    *)
(* each letter by its two-digit value (A = 10 .. Z = 35) is 1 modulo 97;   *)
(* the running remainder of the loop stays in 0..96 and ends as that       *)
(* integer modulo 97.                                                      *)
IbanFormat(n) ==
  /\ Len(n) \in 13..34
  /\ n[1] \in UpperSet /\ n[2] \in UpperSet
  /\ n[3] \in DigitSet /\ n[4] \in DigitSet
  /\ \A i \in 5..Len(n) : n[i] \in DigitSet \cup UpperSet

\* A = 10 .. Z = 35, written with two digits
LetterDigits(c) ==
  LET v == 9 + (CHOOSE i \in 1..26 : UpperChars[i] = c)
  IN  <<DigitChars[(v \div 10) + 1], DigitChars[(v % 10) + 1]>>

RECURSIVE Expanded(_)

Expanded(chars) ==
  IF chars = <<>> THEN <<>>
  ELSE (IF Head(chars) \in UpperSet
        THEN LetterDigits(Head(chars)) ELSE <<Head(chars)>>)
       \o Expanded(Tail(chars))

IbanDigits(n) == Expanded(SubSeq(n, 5, Len(n)) \o SubSeq(n, 1, 4))

IbanChecks(n) == IbanFormat(n) /\ DenotedMod97(IbanDigits(n)) = 1

IbanVerdict ==
  Ended("isValidIBAN") =>
    LET n == Normalized(input)
        digits == IbanDigits(n)
    IN  /\ verdict.kind = "return"
        /\ verdict.value = (~Falsy(input) /\ IbanChecks(n))
        /\ IbanFormat(n) =>
             \A k \in 0..Len(digits) :
               LET r == remainderOf(SubSeq(digits, 1, k), 0)
               IN  r \in 0..96 /\ r = DenotedMod97(SubSeq(digits, 1, k))

\* an accepted IBAN with letters in its account part
IbanVerdictWitness ==
  /\ Ended("isValidIBAN")
  /\ IsText(input)
  /\ Len(input.c) = 22
  /\ SubSeq(input.c, 1, 8) = <<"G", "B", "8", "2", "W", "E", "S", "T">>
  /\ verdict = Returned(TRUE, TRUE)

---------------------------------------------------------------------------
(* C18: replacing any single decimal digit of a string that isValidIBAN    *)
(* accepts by a different decimal digit gives a string that isValidIBAN    *)
(* rejects.                                                                *)
DigitFlips(chars) ==
  {[chars EXCEPT ![i] = d] :
     i \in {j \in 1..Len(chars) : chars[j] \in DigitSet},
     d \in DigitSet} \ {chars}

SingleDigitFlipRejected ==
  (Ended("isValidIBAN") /\ verdict = Returned(TRUE, TRUE)) =>
    \A flipped \in DigitFlips(input.c) :
      isValidIBAN(Text(flipped)) = Returned(FALSE, TRUE)

\* the documented Spanish IBAN is accepted and has 22 digits to flip
SingleDigitFlipRejectedWitness ==
  /\ Ended("isValidIBAN")
  /\ input = Text(IbanExample)
  /\ verdict = Returned(TRUE, TRUE)
  /\ Cardinality(DigitFlips(input.c)) = 9 * 22

---------------------------------------------------------------------------
(* C19: every validator returns false, without throwing, for null,         *)
(* undefined and the empty string, and returns a boolean without throwing  *)
(* for every string.                                                       *)
NeverThrows ==
  Called =>
    /\ verdict.kind = "return"
    /\ verdict.value \in BOOLEAN
    /\ input \in {Null, Undef, Text(<<>>)} => verdict = Returned(FALSE, FALSE)

\* isValidIBAN(null) returned false
NeverThrowsWitness ==
  /\ Ended("isValidIBAN")
  /\ input = Null
  /\ verdict = Returned(FALSE, FALSE)

---------------------------------------------------------------------------
(* C20: the verdict of each validator depends only on the normalized       *)
(* input: inserting or removing hyphens or whitespace anywhere, or         *)
(* changing the case of letters, never changes the result, and any other   *)
(* extra character makes the result false before a checksum is computed.   *)
Validate(which, value) ==
  CASE which = "isValidDNI" -> isValidDNI(value)
    [] which = "isValidNIE" -> isValidNIE(value)
    [] which = "isValidSpanishSSN" -> isValidSpanishSSN(value)
    [] which = "isValidIBAN" -> isValidIBAN(value)

Format(which, n) ==
  CASE which = "isValidDNI" -> DniFormat(n)
    [] which = "isValidNIE" -> NieFormat(n)
    [] which = "isValidSpanishSSN" -> SsnFormat(n)
    [] which = "isValidIBAN" -> IbanFormat(n)

Separators == {"-", " "}

\* one separator more, one separator less, or one letter in the other case
SameNormalization(chars) ==
  {Insert(chars, i, c) : i \in 0..Len(chars), c \in Separators}
  \cup {Remove(chars, i) : i \in {j \in 1..Len(chars) : chars[j] \in Separators}}
  \cup {[chars EXCEPT ![i] = toLowerCase(chars[i])] : i \in 1..Len(chars)}
  \cup {[chars EXCEPT ![i] = toUpperCase(chars[i])] : i \in 1..Len(chars)}

\* one character more that is not a hyphen or whitespace
WithExtra(chars, extras) ==
  {Insert(chars, i, c) : i \in 0..Len(chars), c \in extras}

SeparatorsAndCaseIgnored ==
  (Called /\ IsText(input)) =>
    \A edited \in SameNormalization(input.c) :
      Validate(validator, Text(edited)) = verdict

\* a punctuation mark, a digit and a letter
ExtraCharacters == {".", "0", "A"}

ExtraCharacterRejected ==
  (Called /\ IsText(input) /\ Format(validator, Normalized(input))) =>
    \A extended \in WithExtra(input.c, ExtraCharacters) :
      Validate(validator, Text(extended)) = Returned(FALSE, FALSE)

VerdictOfNormalizedOnly == SeparatorsAndCaseIgnored /\ ExtraCharacterRejected

(* C20, amended: separators and case never change the result; the result  *)
(* is false before a checksum is computed whenever the normalization does  *)
(* not match the format, which is the case after adding a character        *)
(* outside [-\sA-Za-z0-9] to any string and after adding a letter or digit *)
(* to a well-formed DNI, NIE or SSN; a letter or digit added to a          *)
(* well-formed IBAN can leave the format matched, and then the checksum    *)
(* decides: a 0 added after the check digits of an accepted IBAN gives an  *)
(* accepted IBAN.                                                          *)
FixedLength == {"isValidDNI", "isValidNIE", "isValidSpanishSSN"}

VerdictOfNormalizedOrMalformed ==
  /\ SeparatorsAndCaseIgnored
  /\ (Called /\ IsText(input)) =>
       /\ ~Format(validator, Normalized(input)) =>
            verdict = Returned(FALSE, FALSE)
       /\ \A extended \in WithExtra(input.c, {"."}) :
            Validate(validator, Text(extended)) = Returned(FALSE, FALSE)
  /\ (Called /\ IsText(input) /\ Format(validator, Normalized(input))) =>
       \A extended \in WithExtra(input.c, {"0", "A"}) :
         IF validator \in FixedLength
         THEN Validate(validator, Text(extended)) = Returned(FALSE, FALSE)
         ELSE Validate(validator, Text(extended)).checksum
                = IbanFormat(normalizeChars(extended))
  /\ (Ended("isValidIBAN") /\ input = Text(IbanExample)) =>
       isValidIBAN(Text(Insert(input.c, 4, "0"))) = Returned(TRUE, TRUE)

\* an accepted document written with a separator and in lower case
VerdictOfNormalizedOrMalformedWitness ==
  /\ Called
  /\ IsText(input)
  /\ \E i \in 1..Len(input.c) : input.c[i] \in Separators
  /\ \E i \in 1..Len(input.c) : input.c[i] \in LowerSet
  /\ verdict = Returned(TRUE, TRUE)

---------------------------------------------------------------------------
(* UtilsHelper.mask (src/src/utils/utils.helper.ts) *)

Returns(value) == [kind |-> "return", value |-> value]
Throws(error) == [kind |-> "throw", error |-> error]

\* value !== null && typeof value === 'object' && !Array.isArray(value)
isObject(value) == value.t = "object"

sensitiveFields ==
  {"password", "token", "secret", "apikey", "firstname", "lastname", "email",
   "phone", "ssn", "socialsecuritynumber", "dateofbirth", "iban", "creditcard",
   "address"}

sensitiveTrees == {"personaldata", "credentials"}

\* key.toLowerCase() on the keys the inputs use
keyLower(key) ==
  CASE key \in {"Password", "PASSWORD"} -> "password"
    [] key = "Email" -> "email"
    [] key = "personalData" -> "personaldata"
    [] key = "apiKey" -> "apikey"
    [] OTHER -> key

\* JSON.parse(text) on the texts the inputs use: the primitive, the array
\* of one element or the object of one or two properties whose JSON text it
\* is, or a SyntaxError
Parsable ==
  LET leaves == {Null, Num(1), Bool(TRUE), Str("x"), Str("*****")}
      keys == {"password", "PASSWORD", "apiKey", "name", "users", "personalData"}
      objects ==
        {Obj(<<Prop(k, v)>>) : k \in keys, v \in leaves}
        \cup {Obj(<<Prop("name", v), Prop(k, w)>>) :
                k \in {"password", "Email"}, v \in leaves, w \in leaves}
  IN  leaves \cup objects
      \cup {Arr(<<>>)} \cup {Arr(<<v>>) : v \in leaves \cup objects}

JSONparse(text) ==
  IF \E v \in Parsable : JsonText(v) = text
  THEN Returns(CHOOSE v \in Parsable : JsonText(v) = text)
  ELSE Throws("SyntaxError")

RECURSIVE mask(_, _)

mask(value, maskAll) ==
  LET parsed == JSONparse(value.s)
      \* the body of the loop over Object.entries(data)
      entry(key, v) ==
        IF isObject(v) THEN mask(v, maskAll \/ keyLower(key) \in sensitiveTrees)
        ELSE IF maskAll \/ keyLower(key) \in sensitiveFields THEN Str("*****")
        ELSE v
  IN  IF value.t = "string"
      THEN IF parsed.kind = "return" THEN mask(parsed.value, maskAll) ELSE value
      ELSE IF IsArray(value)
      THEN Arr([i \in 1..Len(value.a) |-> mask(value.a[i], maskAll)])
      ELSE IF ~isObject(value) THEN value
      ELSE Obj([i \in 1..Len(value.o) |->
                  Prop(value.o[i].k, entry(value.o[i].k, value.o[i].v))])

\* The arguments of mask: the values above, objects that hold one of the
\* arrays or objects above under a key, the JSON texts of some of them, a
\* string that is no JSON text, and undefined.
MaskInit ==
  /\ call \in
       {[op |-> "mask", data |-> d] :
          d \in Parsable
                \cup {Obj(<<Prop(k, v)>>) :
                        k \in {"users", "password", "personalData", "name"},
                        v \in {w \in Parsable : w.t \in {"array", "object"}}}
                \cup {Str(JsonText(v)) :
                        v \in {w \in Parsable : w.t \in {"number", "object"}}}
                \cup {Str("secret"), Undef}}
  /\ outcome = [kind |-> "none"]
  /\ pc = "call"
  /\ IdleExcept({"call"})

\* helper.mask(data)
Mask ==
  /\ pc = "call"
  /\ call.op = "mask"
  /\ outcome' = Returns(mask(call.data, FALSE))
  /\ pc' = "done"
  /\ UNCHANGED <<call, oldValue, newValue, name, result, validatorVars, deferredVars, heap, data, built, calls>>

SpecMask == MaskInit /\ [][Mask]_vars

---------------------------------------------------------------------------
(* defer and deferWithTimeout (src/unnamed/part_003)                        *)
(*                                                                         *)
(* promise is pending (following a thenable once it was resolved with       *)
(* one), fulfilled or rejected. timeoutId is "armed", "cleared" or         *)
(* "fired". The object defer returns reads the flags through getters; the  *)
(* object deferWithTimeout returns is { ...deferred, resolve, reject,      *)
(* clearTimeout }, and the spread copies the value each getter has at that  *)
(* moment into a data property.                                            *)

\* the number of calls made on one deferred
MaxCalls == 3

Error(message) == [t |-> "Error", message |-> message]

\* the closure resolve of defer: res(value) of the promise executor fulfils
\* the promise, or makes it follow the thenable it is given
resolve(value) ==
  IF ~isSettled
  THEN /\ isSettled' = TRUE
       /\ isResolved' = TRUE
       /\ promise' = IF value.t = "thenable"
                     THEN [state |-> "pending", following |-> value]
                     ELSE [state |-> "fulfilled", value |-> value]
       /\ UNCHANGED isRejected
  ELSE UNCHANGED <<isSettled, isResolved, isRejected, promise>>

\* a variant without the guard
rejectAlways(reason) ==
  /\ isSettled' = TRUE
  /\ isRejected' = TRUE
  /\ promise' = [state |-> "rejected", reason |-> reason]
  /\ UNCHANGED isResolved

\* the closure reject of defer
reject(reason) ==
  IF ~isSettled
  THEN /\ isSettled' = TRUE
       /\ isRejected' = TRUE
       /\ promise' = [state |-> "rejected", reason |-> reason]
       /\ UNCHANGED isResolved
  ELSE UNCHANGED <<isSettled, isResolved, isRejected, promise>>

\* deferred.isSettled, deferred.isResolved, deferred.isRejected
Property(field) ==
  IF deferred.kind = "deferWithTimeout" THEN deferred[field]
  ELSE CASE field = "isSettled" -> isSettled
         [] field = "isResolved" -> isResolved
         [] field = "isRejected" -> isRejected

DeferredInit ==
  /\ call \in {[op |-> "defer"]}
              \cup {[op |-> "deferWithTimeout", timeoutMessage |-> m] :
                      m \in {"Operation timed out", "too slow"}}
  /\ outcome = [kind |-> "none"]
  /\ pc = "call"
  /\ calls = <<>>
  /\ IdleExcept({"call", "calls"})

\* const deferred = defer()
Defer ==
  /\ pc = "call"
  /\ call.op = "defer"
  /\ isSettled' = FALSE
  /\ isResolved' = FALSE
  /\ isRejected' = FALSE
  /\ promise' = [state |-> "pending", following |-> Undef]
  /\ deferred' = [kind |-> "defer"]
  /\ pc' = "created"
  /\ UNCHANGED <<timeoutId, calls, call, outcome, oldValue, newValue, name, result, validatorVars, heap, data, built>>

\* const deferred = deferWithTimeout(timeoutMs, timeoutMessage)
DeferWithTimeout ==
  /\ pc = "call"
  /\ call.op = "deferWithTimeout"
  /\ isSettled' = FALSE
  /\ isResolved' = FALSE
  /\ isRejected' = FALSE
  /\ promise' = [state |-> "pending", following |-> Undef]
  /\ timeoutId' = "armed"
  /\ deferred' = [kind |-> "deferWithTimeout", isSettled |-> isSettled',
                  isResolved |-> isResolved', isRejected |-> isRejected']
  /\ pc' = "created"
  /\ UNCHANGED <<calls, call, outcome, oldValue, newValue, name, result, validatorVars, heap, data, built>>

\* a variant that leaves the timer armed
clearTimeoutNever == UNCHANGED timeoutId

\* clearTimeout(timeoutId) where there is a timer
clearTimeout == timeoutId' = IF timeoutId = "armed" THEN "cleared" ELSE timeoutId

\* deferred.resolve(value): the closure of defer, after clearTimeout on the
\* object of deferWithTimeout
Resolve ==
  /\ pc = "created"
  /\ Len(calls) < MaxCalls
  /\ \E value \in {Str("success"), Str("other"),
                   [t |-> "thenable", state |-> "fulfilled", value |-> Str("late")],
                   [t |-> "thenable", state |-> "rejected", reason |-> Error("failed")]} :
       /\ resolve(value)
       /\ calls' = Append(calls, [op |-> "resolve", value |-> value])
  /\ clearTimeout
  /\ UNCHANGED <<deferred, pc, call, outcome, oldValue, newValue, name, result, validatorVars, heap, data, built>>

\* deferred.reject(reason)
Reject ==
  /\ pc = "created"
  /\ Len(calls) < MaxCalls
  /\ \E reason \in {Error("failed"), Undef} :
       /\ reject(reason)
       /\ calls' = Append(calls, [op |-> "reject", reason |-> reason])
  /\ clearTimeout
  /\ UNCHANGED <<deferred, pc, call, outcome, oldValue, newValue, name, result, validatorVars, heap, data, built>>

\* deferred.clearTimeout()
ClearTimeout ==
  /\ pc = "created"
  /\ deferred.kind = "deferWithTimeout"
  /\ Len(calls) < MaxCalls
  /\ clearTimeout
  /\ calls' = Append(calls, [op |-> "clearTimeout"])
  /\ UNCHANGED <<isSettled, isResolved, isRejected, promise, deferred, pc,
                 call, outcome, oldValue, newValue, name, result, validatorVars, heap, data, built>>

\* the callback of setTimeout: deferred.reject(new Error(timeoutMessage))
Timeout ==
  /\ pc = "created"
  /\ timeoutId = "armed"
  /\ timeoutId' = "fired"
  /\ reject(Error(call.timeoutMessage))
  /\ calls' = Append(calls, [op |-> "timeout"])
  /\ UNCHANGED <<deferred, pc, call, outcome, oldValue, newValue, name, result, validatorVars, heap, data, built>>

\* the promise takes the state of the thenable it follows
Follow ==
  /\ pc = "created"
  /\ promise.state = "pending"
  /\ promise.following # Undef
  /\ promise' = IF promise.following.state = "fulfilled"
                THEN [state |-> "fulfilled", value |-> promise.following.value]
                ELSE [state |-> "rejected", reason |-> promise.following.reason]
  /\ UNCHANGED <<isSettled, isResolved, isRejected, timeoutId, deferred, pc, calls,
                 call, outcome, oldValue, newValue, name, result, validatorVars, heap, data, built>>

DeferredNext ==
  \/ Defer
  \/ DeferWithTimeout
  \/ Resolve
  \/ Reject
  \/ ClearTimeout
  \/ Timeout
  \/ Follow

SpecDeferred == DeferredInit /\ [][DeferredNext]_vars

\* the event loop runs the callback of a timer that stays armed, and the
\* reaction of a promise to the thenable it follows
SpecDeferredFair ==
  DeferredInit /\ [][DeferredNext]_vars /\ WF_vars(Timeout) /\ WF_vars(Follow)

---------------------------------------------------------------------------
(* EnvironmentGuard (src/src/guards/environment.guard.ts)                   *)
(*                                                                         *)
(* Environment names are sequences of characters, so that toLowerCase is    *)
(* computed. The metadata of a handler is undefined or a list of names.     *)

Environment ==
  [DEVELOPMENT |-> <<"d", "e", "v", "e", "l", "o", "p", "m", "e", "n", "t">>,
   TEST |-> <<"t", "e", "s", "t">>,
   STAGING |-> <<"s", "t", "a", "g", "i", "n", "g">>,
   PRODUCTION |-> <<"p", "r", "o", "d", "u", "c", "t", "i", "o", "n">>]

\* @TestOnly(): AllowedIn(Environment.DEVELOPMENT, Environment.TEST)
TestOnly ==
  [allowedEnvironments |-> Arr(<<Environment.DEVELOPMENT, Environment.TEST>>),
   blockedEnvironments |-> Undef]

\* @NonProduction(): BlockedIn(Environment.PRODUCTION)
NonProduction ==
  [allowedEnvironments |-> Undef,
   blockedEnvironments |-> Arr(<<Environment.PRODUCTION>>)]

\* this.config of the constructor
EnvironmentGuard(config) ==
  [currentEnvironment |-> config.currentEnvironment,
   productionIdentifiers |->
     IF IsNullish(config.productionIdentifiers)
     THEN Arr(<<Environment.PRODUCTION, <<"p", "r", "o", "d">>>>)
     ELSE config.productionIdentifiers,
   throwOnForbidden |->
     IF IsNullish(config.throwOnForbidden) THEN Bool(TRUE)
     ELSE config.throwOnForbidden]

\* a variant that only looks at the list of allowed environments
canActivateAllowedOnly(config, handler) ==
  IF /\ ~IsNullish(handler.allowedEnvironments)
     /\ Len(handler.allowedEnvironments.a) > 0
     /\ LowerCased(config.currentEnvironment)
          \notin {LowerCased(e) : e \in Range(handler.allowedEnvironments.a)}
  THEN Throws("ForbiddenException")
  ELSE Returns(TRUE)

canActivate(config, handler) ==
  LET \* this.handleForbidden(message)
      handleForbidden ==
        IF config.throwOnForbidden.b THEN Throws("ForbiddenException")
        ELSE Returns(FALSE)
      currentEnv == LowerCased(config.currentEnvironment)
      allowedEnvironments == handler.allowedEnvironments
      blockedEnvironments == handler.blockedEnvironments
      \* list?.length, then list.map((e) => e.toLowerCase()).includes(currentEnv)
      includes(list) ==
        /\ ~IsNullish(list)
        /\ Len(list.a) > 0
        /\ currentEnv \in {LowerCased(e) : e \in Range(list.a)}
      nonEmpty(list) == ~IsNullish(list) /\ Len(list.a) > 0
  IN  IF nonEmpty(allowedEnvironments) /\ ~includes(allowedEnvironments)
      THEN handleForbidden
      ELSE IF nonEmpty(blockedEnvironments) /\ includes(blockedEnvironments)
      THEN handleForbidden
      ELSE Returns(TRUE)

isProduction(config) ==
  LowerCased(config.currentEnvironment)
    \in {LowerCased(id) : id \in Range(config.productionIdentifiers.a)}

\* The configurations and handlers: the four environments, 'prod' and 'live'
\* in lower case, capitalised and in upper case; the production identifiers
\* left out or given; throwOnForbidden left out, true or false; handlers
\* without metadata, with an empty list, with the documented decorators and
\* with lists of one or two names.
GuardInit ==
  LET upper(e) == [i \in 1..Len(e) |-> toUpperCase(e[i])]
      names == {Environment.DEVELOPMENT, Environment.TEST, Environment.STAGING,
                Environment.PRODUCTION, <<"p", "r", "o", "d">>, <<"l", "i", "v", "e">>}
      spellings == names \cup {upper(e) : e \in names}
                   \cup {[e EXCEPT ![1] = toUpperCase(e[1])] : e \in names}
      lists == {Undef, Arr(<<>>)} \cup {Arr(<<e>>) : e \in spellings}
               \cup {Arr(<<Environment.DEVELOPMENT, Environment.TEST>>)}
  IN  /\ call \in
           {[op |-> "canActivate",
             config |-> [currentEnvironment |-> e, productionIdentifiers |-> ids,
                         throwOnForbidden |-> t],
             handler |-> [allowedEnvironments |-> a, blockedEnvironments |-> b]] :
              e \in spellings,
              ids \in {Undef,
                       Arr(<<<<"p", "r", "o", "d">>, Environment.PRODUCTION,
                             <<"l", "i", "v", "e">>>>)},
              t \in {Undef, Bool(TRUE), Bool(FALSE)},
              a \in lists, b \in lists}
      /\ outcome = [kind |-> "none"]
      /\ pc = "call"
      /\ IdleExcept({"call"})

\* new EnvironmentGuard(reflector, config).canActivate(context)
CanActivate ==
  /\ pc = "call"
  /\ call.op = "canActivate"
  /\ outcome' = canActivate(EnvironmentGuard(call.config), call.handler)
  /\ pc' = "done"
  /\ UNCHANGED <<call, oldValue, newValue, name, result, validatorVars, deferredVars, heap, data, built, calls>>

SpecGuard == GuardInit /\ [][CanActivate]_vars

---------------------------------------------------------------------------
(* GlobalExceptionFilter (src/src/helpers/jwt.helper.ts)                    *)
(*                                                                         *)
(* An exception is an AppError, an HttpException, another Error or a value  *)
(* that is not an Error. The body is the object response.json() serialises: *)
(* JSON.stringify leaves out the properties whose value is undefined.       *)

extractErrorData(exception) ==
  LET \* String(exception)
      String(v) ==
        CASE v.t = "string" -> v.s
          [] v.t = "number" -> ToString(v.n)
          [] v.t = "undefined" -> "undefined"
          [] v.t = "null" -> "null"
          [] OTHER -> "[object Object]"
  IN  CASE exception.kind = "AppError" ->
             [status |-> exception.status, name |-> exception.name,
              data |-> exception.data, stack |-> exception.stack,
              innerError |-> exception.innerError]
        [] exception.kind = "HttpException" ->
             [status |-> exception.status, name |-> exception.name,
              data |-> IF TypeOf(exception.response) = "object"
                       THEN exception.response
                       ELSE Obj(<<Prop("message", exception.response)>>),
              stack |-> exception.stack, innerError |-> Undef]
        [] exception.kind = "Error" ->
             [status |-> 500, name |-> exception.name, data |-> Undef,
              stack |-> exception.stack, innerError |-> Undef]
        [] OTHER ->
             [status |-> 500, name |-> "UnknownError",
              data |-> Obj(<<Prop("message", Str(String(exception.value)))>>),
              stack |-> Undef, innerError |-> Undef]

\* a variant that spreads stack and innerError whatever the configuration
catchWithStack(config, exception, request) ==
  LET errorData == extractErrorData(exception)
      defined(props) == SelectSeq(props, LAMBDA p : p.v # Undef)
  IN  [kind |-> "response", status |-> errorData.status,
       body |-> Obj(defined(<<
         Prop("timestamp", Str("timestamp")),
         Prop("errorTraceId", Str("ERR-id")),
         Prop("requestTraceId", request),
         Prop("status", Num(errorData.status)),
         Prop("error", Obj(defined(<<
           Prop("name", Str(errorData.name)),
           Prop("data", errorData.data),
           Prop("stack", errorData.stack),
           Prop("innerError", errorData.innerError)>>)))>>))]

\* response.status(errorData.status).json(errorResponse); request is the
\* header x-request-id. The timestamp and the random trace id are opaque.
catch(config, exception, request) ==
  LET errorData == extractErrorData(exception)
      \* JSON.stringify: properties whose value is undefined are left out
      defined(props) == SelectSeq(props, LAMBDA p : p.v # Undef)
      \* ...(this.config.isDebugMode && { stack, innerError })
      debug ==
        IF config.isDebugMode
        THEN <<Prop("stack", errorData.stack),
               Prop("innerError", errorData.innerError)>>
        ELSE <<>>
  IN  [kind |-> "response", status |-> errorData.status,
       body |-> Obj(defined(<<
         Prop("timestamp", Str("timestamp")),
         Prop("errorTraceId", Str("ERR-id")),
         Prop("requestTraceId", request),
         Prop("status", Num(errorData.status)),
         Prop("error", Obj(defined(
           <<Prop("name", Str(errorData.name)),
             Prop("data", errorData.data)>> \o debug)))>>))]

\* The exceptions thrown: of each of the four kinds, with and without a
\* stack, an inner error and data; a thrown plain object that has a property
\* named stack; debug mode on and off.
FilterInit ==
  LET stacks == {Undef, Str("Error: failed at handler (app.ts:1:1)")}
      exceptions ==
        {[kind |-> "AppError", status |-> s, name |-> n, data |-> d,
          stack |-> st, innerError |-> i] :
           s \in {400, 500}, n \in {"AppError", "NotFoundError"},
           d \in {Undef, Obj(<<Prop("code", Str("E1"))>>)}, st \in stacks,
           i \in {Undef, Str("cause"),
                  Obj(<<Prop("message", Str("connection refused"))>>)}}
        \cup {[kind |-> "HttpException", status |-> s, name |-> "HttpException",
               response |-> r, stack |-> st] :
                s \in {404, 500},
                r \in {Str("Not Found"),
                       Obj(<<Prop("message", Str("Not Found"))>>)},
                st \in stacks}
        \cup {[kind |-> "Error", name |-> n, stack |-> st] :
                n \in {"Error", "TypeError"}, st \in stacks}
        \cup {[kind |-> "value", value |-> v] :
                v \in {Str("failed"), Num(1), Undef, Null,
                       Obj(<<Prop("stack", Str("thrown object"))>>)}}
  IN  /\ call \in
           {[op |-> "catch", config |-> [isDebugMode |-> d], exception |-> e,
             request |-> r] :
              d \in BOOLEAN, e \in exceptions, r \in {Undef, Str("req-1")}}
      /\ outcome = [kind |-> "none"]
      /\ pc = "call"
      /\ IdleExcept({"call"})

\* new GlobalExceptionFilter(logger, config).catch(exception, host)
Catch ==
  /\ pc = "call"
  /\ call.op = "catch"
  /\ outcome' = catch(call.config, call.exception, call.request)
  /\ pc' = "done"
  /\ UNCHANGED <<call, oldValue, newValue, name, result, validatorVars, deferredVars, heap, data, built, calls>>

SpecFilter == FilterInit /\ [][Catch]_vars

---------------------------------------------------------------------------
(* GetPagination (src/src/decorators/param.decorator.ts)                    *)
(*                                                                         *)
(* A query parameter is undefined or a string of characters; a number is    *)
(* Num(n) or NaN. Math.max, Math.min, - and * give NaN when an operand is   *)
(* NaN; a || b is b when a is 0 or NaN.                                     *)

\* String(value) of undefined or of a string, then parseInt(chars, 10):
\* leading whitespace is skipped, then an optional sign, then the longest run
\* of decimal digits; NaN when that run is empty
parseInt10(value) ==
  LET chars ==
        IF value = Undef THEN <<"u", "n", "d", "e", "f", "i", "n", "e", "d">>
        ELSE value.c
      n == Len(chars)
      start ==
        IF \A i \in 1..n : chars[i] = " " THEN n + 1
        ELSE CHOOSE i \in 1..n :
               chars[i] # " " /\ \A j \in 1..(i - 1) : chars[j] = " "
      signed == start <= n /\ chars[start] \in {"+", "-"}
      from == IF signed THEN start + 1 ELSE start
      to == CHOOSE j \in (from - 1)..n :
              /\ \A i \in from..j : IsDigit(chars[i])
              /\ j = n \/ ~IsDigit(chars[j + 1])
      magnitude == parseInt(SubSeq(chars, from, to))
  IN  IF to < from THEN NaN
      ELSE IF signed /\ chars[start] = "-" THEN Num(0 - magnitude)
      ELSE Num(magnitude)

\* a variant that does not cap the limit at maxLimit
GetPaginationUncapped(options, query) ==
  LET defaultLimit ==
        IF options.defaultLimit = Undef THEN Num(20) ELSE options.defaultLimit
      Or(a, b) == IF a = NaN \/ a = Num(0) THEN b ELSE a
      max(a, b) ==
        IF a = NaN \/ b = NaN THEN NaN ELSE IF a.n >= b.n THEN a ELSE b
      page == max(Num(1), Or(parseInt10(query.page), Num(1)))
      limit == max(Num(1), Or(parseInt10(query.limit), defaultLimit))
      offset ==
        IF page = NaN \/ limit = NaN THEN NaN ELSE Num((page.n - 1) * limit.n)
  IN  Returns([page |-> page, limit |-> limit, offset |-> offset])

GetPagination(options, query) ==
  LET \* const { defaultLimit = 20, maxLimit = 100 } = options
      defaultLimit ==
        IF options.defaultLimit = Undef THEN Num(20) ELSE options.defaultLimit
      maxLimit == IF options.maxLimit = Undef THEN Num(100) ELSE options.maxLimit
      Or(a, b) == IF a = NaN \/ a = Num(0) THEN b ELSE a
      max(a, b) ==
        IF a = NaN \/ b = NaN THEN NaN ELSE IF a.n >= b.n THEN a ELSE b
      min(a, b) ==
        IF a = NaN \/ b = NaN THEN NaN ELSE IF a.n <= b.n THEN a ELSE b
      page == max(Num(1), Or(parseInt10(query.page), Num(1)))
      requestedLimit == Or(parseInt10(query.limit), defaultLimit)
      limit == min(max(Num(1), requestedLimit), maxLimit)
      offset ==
        IF page = NaN \/ limit = NaN THEN NaN ELSE Num((page.n - 1) * limit.n)
  IN  Returns([page |-> page, limit |-> limit, offset |-> offset])

\* The decorator's options (defaultLimit and maxLimit left out, given, zero,
\* negative, larger than maxLimit, NaN) and the query of the request (page
\* and limit missing, empty, not numeric, zero, negative, signed, padded,
\* followed by other characters, large).
PaginationInit ==
  LET texts ==
        {<<>>, <<" ">>, <<"a", "b", "c">>, <<"0">>, <<"0", "0">>, <<"-", "0">>,
         <<"-", "1">>, <<"-", "7">>, <<"1">>, <<"2">>, <<"+", "3">>,
         <<" ", "5">>, <<"1", "2", "a", "b">>, <<"2", ".", "9">>,
         <<"1", "e", "3">>, <<"0", "x", "1", "0">>, <<"1", "5", "0">>,
         <<"9", "9", "9", "9">>}
      values == {Undef} \cup {Text(c) : c \in texts}
  IN  /\ call \in
           {[op |-> "GetPagination",
             options |-> [defaultLimit |-> d, maxLimit |-> m],
             query |-> [page |-> p, limit |-> l]] :
              d \in {Undef, Num(0), Num(0 - 5), Num(10), Num(500), NaN},
              m \in {Undef, Num(0), Num(1), Num(50), Num(100)},
              p \in values, l \in values}
      /\ outcome = [kind |-> "none"]
      /\ pc = "call"
      /\ IdleExcept({"call"})

\* @GetPagination(options) resolved for a request
CallGetPagination ==
  /\ pc = "call"
  /\ call.op = "GetPagination"
  /\ outcome' = GetPagination(call.options, call.query)
  /\ pc' = "done"
  /\ UNCHANGED <<call, oldValue, newValue, name, result, validatorVars, deferredVars, heap, data, built, calls>>

SpecPagination == PaginationInit /\ [][CallGetPagination]_vars

---------------------------------------------------------------------------
(* EntityBuilder (src/src/helpers/jwt.helper.ts)                            *)
(*                                                                         *)
(* heap holds the objects allocated so far; this.data and the value build() *)
(* returned are references into it, since build() returns this.data itself. *)
(* At most MaxCalls calls are made on one builder.                          *)

\* new EntityBuilder(initial): this.data = {}, then set(initial) if initial
BuilderInit ==
  /\ call \in {[op |-> "new EntityBuilder", initial |-> i] :
                 i \in {Undef, Obj(<<>>), Obj(<<Prop("id", Str("123"))>>),
                        Obj(<<Prop("name", Str("Ann"))>>)}}
  /\ heap = <<IF call.initial = Undef THEN Obj(<<>>) ELSE call.initial>>
  /\ data = 1
  /\ built = 0
  /\ calls = <<>>
  /\ outcome = [kind |-> "none"]
  /\ pc = "call"
  /\ IdleExcept({"call", "builder"})

\* builder.set(source): Object.assign(this.data, source)
Set ==
  /\ call.op = "new EntityBuilder"
  /\ Len(calls) < MaxCalls
  /\ \E source \in
         {Obj(<<>>), Obj(<<Prop("name", Str("John"))>>),
          Obj(<<Prop("age", Num(30))>>),
          Obj(<<Prop("name", Str("Jane")), Prop("age", Undef)>>)} :
       LET target == heap[data]
           \* the keys of the target keep their place, new keys are appended
           assigned ==
             Obj([i \in 1..Len(target.o) |->
                    IF HasField(source, target.o[i].k)
                    THEN Prop(target.o[i].k, Field(source, target.o[i].k))
                    ELSE target.o[i]]
                 \o SelectSeq(source.o, LAMBDA p : ~HasField(target, p.k)))
       IN  /\ heap' = [heap EXCEPT ![data] = assigned]
           /\ calls' = Append(calls, [op |-> "set", data |-> source])
  /\ UNCHANGED <<data, built, pc, call, outcome, oldValue, newValue, name, result, validatorVars, deferredVars>>

\* builder.setProperty(key, value): this.data[key] = value
SetProperty ==
  /\ call.op = "new EntityBuilder"
  /\ Len(calls) < MaxCalls
  /\ \E key \in {"name", "age"}, value \in {Str("John"), Num(31), Undef} :
       LET target == heap[data]
       IN  /\ heap' =
                [heap EXCEPT ![data] =
                   IF HasField(target, key)
                   THEN Obj([i \in 1..Len(target.o) |->
                               IF target.o[i].k = key THEN Prop(key, value)
                               ELSE target.o[i]])
                   ELSE Obj(Append(target.o, Prop(key, value)))]
           /\ calls' = Append(calls, [op |-> "setProperty", key |-> key,
                                      value |-> value])
  /\ UNCHANGED <<data, built, pc, call, outcome, oldValue, newValue, name, result, validatorVars, deferredVars>>

\* a variant that keeps the object
ResetKeepsData ==
  /\ call.op = "new EntityBuilder"
  /\ Len(calls) < MaxCalls
  /\ calls' = Append(calls, [op |-> "reset"])
  /\ UNCHANGED <<heap, data, built, pc, call, outcome, oldValue, newValue, name, result, validatorVars, deferredVars>>

\* builder.reset(): this.data = {}
Reset ==
  /\ call.op = "new EntityBuilder"
  /\ Len(calls) < MaxCalls
  /\ heap' = Append(heap, Obj(<<>>))
  /\ data' = Len(heap) + 1
  /\ calls' = Append(calls, [op |-> "reset"])
  /\ UNCHANGED <<built, pc, call, outcome, oldValue, newValue, name, result, validatorVars, deferredVars>>

\* builder.build(): return this.data
Build ==
  /\ call.op = "new EntityBuilder"
  /\ Len(calls) < MaxCalls
  /\ built' = data
  /\ calls' = Append(calls, [op |-> "build"])
  /\ UNCHANGED <<heap, data, pc, call, outcome, oldValue, newValue, name, result, validatorVars, deferredVars>>

SpecBuilder == BuilderInit /\ [][Set \/ SetProperty \/ Reset \/ Build]_vars

---------------------------------------------------------------------------
(* C21: in the value mask(data) returns, at every nesting depth, inside     *)
(* nested objects and inside arrays that are values of properties, every    *)
(* non-object value under a key whose lower-cased name is a sensitive field *)
(* is '*****'.                                                             *)
RECURSIVE LeftUnmasked(_)

\* some non-object value under a sensitive key, at any depth, is not '*****'
LeftUnmasked(value) ==
  CASE value.t = "array" -> \E i \in 1..Len(value.a) : LeftUnmasked(value.a[i])
    [] value.t = "object" ->
         \E i \in 1..Len(value.o) :
           \/ /\ keyLower(value.o[i].k) \in sensitiveFields
              /\ value.o[i].v.t # "object"
              /\ value.o[i].v # Str("*****")
           \/ LeftUnmasked(value.o[i].v)
    [] OTHER -> FALSE

SensitiveValuesMasked ==
  (pc = "done" /\ call.op = "mask") => ~LeftUnmasked(outcome.value)

---------------------------------------------------------------------------
(* Vocabulary of the deferred properties *)

Created(kind) == pc = "created" /\ deferred.kind = kind

\* the calls that can settle the promise: resolve, reject and the timer
Settling == SelectSeq(calls, LAMBDA c : c.op \in {"resolve", "reject", "timeout"})

\* what the first settling call makes of the promise, once a thenable it
\* passed on has been followed
OutcomeOf(c) ==
  CASE c.op = "timeout" ->
         [state |-> "rejected", reason |-> Error(call.timeoutMessage)]
    [] c.op = "reject" -> [state |-> "rejected", reason |-> c.reason]
    [] c.op = "resolve" /\ c.value.t # "thenable" ->
         [state |-> "fulfilled", value |-> c.value]
    [] c.op = "resolve" /\ c.value.state = "fulfilled" ->
         [state |-> "fulfilled", value |-> c.value.value]
    [] OTHER -> [state |-> "rejected", reason |-> c.value.reason]

---------------------------------------------------------------------------
(* C22: on the object deferWithTimeout returns, isSettled, isResolved and   *)
(* isRejected are all false while nothing has settled the promise, and      *)
(* after resolve(), reject() or the timer isSettled is true and exactly the *)
(* matching one of isResolved and isRejected is true.                       *)
StatusReported ==
  Created("deferWithTimeout") =>
    IF Settling = <<>>
    THEN /\ ~Property("isSettled")
         /\ ~Property("isResolved")
         /\ ~Property("isRejected")
    ELSE /\ Property("isSettled")
         /\ Property("isResolved") = (Settling[1].op = "resolve")
         /\ Property("isRejected") = (Settling[1].op \in {"reject", "timeout"})

---------------------------------------------------------------------------
(* C23: for a deferred of deferWithTimeout(timeoutMs, msg): when the timer *)
(* fires before any call of resolve, reject or clearTimeout, the promise is *)
(* rejected with an Error whose message is msg, and without such a call the *)
(* timer does fire; when resolve or reject is called first the timer is     *)
(* cancelled and the promise takes the outcome of that call; under every    *)
(* interleaving the promise settles at most once, with the outcome of       *)
(* whichever happened first.                                               *)
FirstDecides ==
  Created("deferWithTimeout") =>
    /\ (calls # <<>> /\ calls[1].op = "timeout") =>
         promise = [state |-> "rejected", reason |-> Error(call.timeoutMessage)]
    /\ (calls # <<>> /\ calls[1].op # "timeout") => timeoutId = "cleared"
    /\ IF Settling = <<>>
       THEN promise = [state |-> "pending", following |-> Undef]
       ELSE \/ promise = OutcomeOf(Settling[1])
            \/ /\ Settling[1].op = "resolve"
               /\ promise = [state |-> "pending", following |-> Settling[1].value]

TimeoutOrFirstCall ==
  /\ []FirstDecides
  /\ [][promise.state \in {"fulfilled", "rejected"} => promise' = promise]_vars
  /\ Created("deferWithTimeout") ~> (calls # <<>>)
  /\ (Created("deferWithTimeout") /\ Settling # <<>>) ~>
       (Settling # <<>> /\ promise = OutcomeOf(Settling[1]))

\* the timer fired first, and resolve and reject were called after it
TimeoutOrFirstCallWitness ==
  /\ Created("deferWithTimeout")
  /\ Len(calls) = 3
  /\ calls[1].op = "timeout"
  /\ calls[2].op = "resolve"
  /\ calls[3].op = "reject"
  /\ promise = [state |-> "rejected", reason |-> Error("too slow")]

---------------------------------------------------------------------------
(* C26: for a deferred of defer(), always isSettled = (isResolved or        *)
(* isRejected) and never both; the flags start false, the first call of     *)
(* resolve or reject sets them, and later calls change neither the flags    *)
(* nor the outcome of the promise.                                         *)
FlagsOfFirstCall ==
  Created("defer") =>
    /\ Property("isSettled") = (Property("isResolved") \/ Property("isRejected"))
    /\ ~(Property("isResolved") /\ Property("isRejected"))
    /\ IF calls = <<>>
       THEN /\ ~Property("isSettled")
            /\ promise = [state |-> "pending", following |-> Undef]
       ELSE /\ Property("isResolved") = (calls[1].op = "resolve")
            /\ Property("isRejected") = (calls[1].op = "reject")
            /\ \/ promise = OutcomeOf(calls[1])
               \/ /\ calls[1].op = "resolve"
                  /\ promise = [state |-> "pending", following |-> calls[1].value]

\* resolve('success') was followed by reject and by another resolve
FlagsOfFirstCallWitness ==
  /\ Created("defer")
  /\ Len(calls) = 3
  /\ calls[1] = [op |-> "resolve", value |-> Str("success")]
  /\ calls[2].op = "reject"
  /\ calls[3] = [op |-> "resolve", value |-> Str("other")]
  /\ promise = [state |-> "fulfilled", value |-> Str("success")]
  /\ isResolved

---------------------------------------------------------------------------
(* C24: canActivate grants access exactly when the list of allowed          *)
(* environments is absent, empty or contains the current environment and    *)
(* the list of blocked environments does not contain it, compared without   *)
(* regard to case; otherwise it denies, by throwing ForbiddenException when *)
(* throwOnForbidden is true (the default) and by returning false when it is *)
(* false. A handler marked @TestOnly() is granted only in development and   *)
(* test.                                                                   *)
Activated == pc = "done" /\ call.op = "canActivate"

\* two names are the same without regard to case
SameName(e, f) ==
  /\ Len(e) = Len(f)
  /\ \A i \in 1..Len(e) : toUpperCase(e[i]) = toUpperCase(f[i])

\* the list is not absent and holds the name
Lists(list, e) == list # Undef /\ \E i \in 1..Len(list.a) : SameName(list.a[i], e)

ShouldGrant ==
  /\ \/ call.handler.allowedEnvironments \in {Undef, Arr(<<>>)}
     \/ Lists(call.handler.allowedEnvironments, call.config.currentEnvironment)
  /\ ~Lists(call.handler.blockedEnvironments, call.config.currentEnvironment)

GrantedExactly ==
  Activated =>
    /\ ShouldGrant => outcome = Returns(TRUE)
    /\ ~ShouldGrant =>
         IF call.config.throwOnForbidden = Bool(FALSE)
         THEN outcome = Returns(FALSE)
         ELSE outcome = Throws("ForbiddenException")
    /\ (call.handler = TestOnly /\ outcome = Returns(TRUE)) =>
         \/ SameName(call.config.currentEnvironment, Environment.DEVELOPMENT)
         \/ SameName(call.config.currentEnvironment, Environment.TEST)

\* a @TestOnly() handler is granted in 'TEST', and one is denied in staging
\* by a guard built without throwOnForbidden
GrantedExactlyWitness ==
  /\ Activated
  /\ call.handler = TestOnly
  /\ call.config.throwOnForbidden = Undef
  /\ \/ /\ call.config.currentEnvironment = <<"T", "E", "S", "T">>
        /\ outcome = Returns(TRUE)
     \/ /\ call.config.currentEnvironment = Environment.STAGING
        /\ outcome = Throws("ForbiddenException")

---------------------------------------------------------------------------
(* C29: whenever isProduction() is true for the configured current          *)
(* environment, canActivate denies access to a handler decorated with       *)
(* @NonProduction().                                                       *)
NonProductionDeniedInProduction ==
  (Activated /\ call.handler = NonProduction
   /\ isProduction(EnvironmentGuard(call.config))) =>
    outcome # Returns(TRUE)

---------------------------------------------------------------------------
(* C25: the JSON body GlobalExceptionFilter.catch sends contains            *)
(* error.stack or error.innerError only when config.isDebugMode is true;    *)
(* with isDebugMode false neither is present, whatever the exception.       *)
Caught == pc = "done" /\ call.op = "catch"

StackOnlyInDebugMode ==
  Caught =>
    LET error == Field(outcome.body, "error")
    IN  (HasField(error, "stack") \/ HasField(error, "innerError"))
          => call.config.isDebugMode

\* an AppError with a stack and an inner error was answered outside debug mode
StackOnlyInDebugModeWitness ==
  /\ Caught
  /\ ~call.config.isDebugMode
  /\ call.exception.kind = "AppError"
  /\ call.exception.stack # Undef
  /\ call.exception.innerError # Undef
  /\ Field(outcome.body, "error").o
       = <<Prop("name", Str(call.exception.name))>>

---------------------------------------------------------------------------
(* C30: for every query and options with maxLimit >= 1, GetPagination       *)
(* returns page >= 1, 1 <= limit <= maxLimit and offset = (page - 1) * limit *)
(* >= 0; a missing, non-numeric or zero limit gives defaultLimit clamped    *)
(* into 1..maxLimit, and a missing, non-numeric or non-positive page gives  *)
(* page 1.                                                                  *)
Paginated == pc = "done" /\ call.op = "GetPagination"

\* the query values that are missing or not numeric, zero, and negative
NotNumeric == {Undef, Text(<<>>), Text(<<" ">>), Text(<<"a", "b", "c">>)}
Zero == {Text(<<"0">>), Text(<<"0", "0">>), Text(<<"-", "0">>)}
Negative == {Text(<<"-", "1">>), Text(<<"-", "7">>)}

\* the options with their documented defaults
OptionOf(field, default) ==
  IF call.options[field] = Undef THEN Num(default) ELSE call.options[field]

PageLimitOffset ==
  LET maxLimit == OptionOf("maxLimit", 100).n
      defaultLimit == OptionOf("defaultLimit", 20)
      page == outcome.value.page
      limit == outcome.value.limit
      offset == outcome.value.offset
      clamped ==
        IF defaultLimit.n < 1 THEN 1
        ELSE IF defaultLimit.n > maxLimit THEN maxLimit
        ELSE defaultLimit.n
  IN  /\ outcome.kind = "return"
      /\ page # NaN /\ page.n >= 1
      /\ limit # NaN /\ 1 <= limit.n /\ limit.n <= maxLimit
      /\ offset # NaN /\ offset.n = (page.n - 1) * limit.n /\ offset.n >= 0
      /\ call.query.limit \in NotNumeric \cup Zero
           => defaultLimit # NaN /\ limit.n = clamped
      /\ call.query.page \in NotNumeric \cup Zero \cup Negative => page.n = 1

---------------------------------------------------------------------------
(* C28: when build() returns, the object it returns holds exactly the       *)
(* properties written by set and setProperty since the most recent reset    *)
(* (with the initial data, when there was no reset), each with the value    *)
(* written last.                                                            *)

\* the writes in force: what the constructor wrote when no reset followed,
\* then the set and setProperty calls after the most recent reset
Writes ==
  LET resets == {i \in 1..Len(calls) : calls[i].op = "reset"}
      since == IF resets = {} THEN 0
               ELSE CHOOSE i \in resets : \A j \in resets : j <= i
      initial ==
        IF resets = {} /\ call.initial # Undef
        THEN <<[op |-> "set", data |-> call.initial]>>
        ELSE <<>>
  IN  initial \o SubSeq(calls, since + 1, Len(calls))

\* the call writes the key
WritesKey(c, key) ==
  \/ c.op = "set" /\ HasField(c.data, key)
  \/ c.op = "setProperty" /\ c.key = key

JustBuilt == calls # <<>> /\ calls[Len(calls)].op = "build"

---------------------------------------------------------------------------
(* C27: every recursive call of diff is made on the values of a key common  *)
(* to two non-array objects, each strictly smaller than the value it was    *)
(* taken from; no call is made on the elements of an array; and the depth   *)
(* of the recursion is at most the nesting depth of the objects compared.   *)
RECURSIVE Size(_)
RECURSIVE NestingDepth(_)
RECURSIVE RecursionDepth(_, _)
RECURSIVE RecursesIntoArray(_, _)

Maximum(S) == IF S = {} THEN 0 ELSE CHOOSE n \in S : \A m \in S : m <= n

\* the number of values a value is made of
Size(v) ==
  IF ~IsContainer(v) THEN 1
  ELSE LET keys == Keys(v)
           sizes == [i \in 1..Len(keys) |-> Size(Get(v, keys[i]))]
           Sum[i \in 0..Len(keys)] == IF i = 0 THEN 1 ELSE Sum[i - 1] + sizes[i]
       IN  Sum[Len(keys)]

\* how deep non-array objects are nested in one another: arrays are leaves
NestingDepth(v) ==
  IF v.t # "object" THEN 0
  ELSE 1 + Maximum({NestingDepth(v.o[i].v) : i \in 1..Len(v.o)})

\* the number of calls of diff nested below the call diff(old, new)
RecursionDepth(old, new) ==
  IF ~Recurses(old, new) THEN 0
  ELSE 1 + Maximum({RecursionDepth(Get(old, k), Get(new, k)) :
                      k \in Range(common(old, new))})

\* some call below diff(old, new) is made on an element of an array
RecursesIntoArray(old, new) ==
  /\ Recurses(old, new)
  /\ \/ IsArray(old) \/ IsArray(new)
     \/ \E k \in Range(common(old, new)) :
          RecursesIntoArray(Get(old, k), Get(new, k))

RecursionBounded ==
  Called =>
    /\ Recurses(oldValue, newValue) =>
         \A k \in Range(common(oldValue, newValue)) :
           /\ Size(Get(oldValue, k)) < Size(oldValue)
           /\ Size(Get(newValue, k)) < Size(newValue)
    /\ ~RecursesIntoArray(oldValue, newValue)
    /\ RecursionDepth(oldValue, newValue) <= NestingDepth(oldValue)
    /\ RecursionDepth(oldValue, newValue) <= NestingDepth(newValue)

====
